---- MODULE Spec2Model ----
(***************************************************************************)
(* CTImagesBatch (preprocessing/ct_batch.py): a batch of CT scans stored   *)
(* as one stacked buffer ("skyscraper") with per-item bounds, origin and   *)
(* spacing, and the scatter/gather operations that rebuild it.             *)
(*                                                                         *)
(* A slice (one row of the first axis) is represented by one voxel value;  *)
(* the extents of the other two axes are kept in sliceShape.  Floating     *)
(* point values are exact rationals <<numerator, denominator>>.            *)
(***************************************************************************)
EXTENDS Integers, Sequences, FiniteSets, TLC

(* ------------------------------ bounds -------------------------------- *)
\* number of items (patients) in the index
N == 2
\* longest item (slices) a load produces
MaxLen == 2
\* largest target extent along z given to resize / unify_spacing
MaxZ == 2
\* largest extent of a slice along y and along x
MaxSide == 2
\* longest patch along z given to load_from_patches
MaxPatch == 2
\* number of distinct array objects told apart
MaxRef == 4
\* number of calls made on one batch
MaxCalls == 3

(* --------------------------- program constants ------------------------ *)
AIR_HU == -2000
DARK_HU == -2000
DefaultShape == <<128, 256, 256>>
DefaultSpacing == <<1, 1, 1>>

(* ------------------------------ rationals ----------------------------- *)
Abs(x) == IF x < 0 THEN -x ELSE x

Min(a, b) == IF a < b THEN a ELSE b

Max(a, b) == IF a < b THEN b ELSE a

RECURSIVE GCD(_, _)
GCD(a, b) == IF b = 0 THEN a ELSE GCD(b, a % b)

\* the rational n/d in lowest terms with a positive denominator (d # 0)
Q(n, d) ==
    LET s == IF d < 0 THEN -1 ELSE 1
        g == GCD(Abs(n), Abs(d))
    IN  <<(s * n) \div g, (s * d) \div g>>

QI(k) == <<k, 1>>

QMul(p, q) == Q(p[1] * q[1], p[2] * q[2])

QDiv(p, q) == Q(p[1] * q[2], p[2] * q[1])

QAdd(p, q) == Q(p[1] * q[2] + q[1] * p[2], p[2] * q[2])

QSub(p, q) == Q(p[1] * q[2] - q[1] * p[2], p[2] * q[2])

QLess(p, q) == p[1] * q[2] < q[1] * p[2]

QFloor(q) == q[1] \div q[2]

\* numpy.rint: round to the nearest integer, halves to the even neighbour
Rint(q) ==
    LET f == QFloor(q)
        r == q[1] - f * q[2]
    IN  IF 2 * r < q[2] THEN f
        ELSE IF 2 * r > q[2] THEN f + 1
        ELSE IF f % 2 = 0 THEN f ELSE f + 1

\* element-wise operations on 3-vectors
VMul(u, v) == [a \in 1..3 |-> QMul(u[a], v[a])]

VDiv(u, v) == [a \in 1..3 |-> QDiv(u[a], v[a])]

VAdd(u, v) == [a \in 1..3 |-> QAdd(u[a], v[a])]

VInt(t) == [a \in 1..3 |-> QI(t[a])]

(* ------------------------------ sequences ----------------------------- *)
\* Python s[a:b] for 0 <= a, 0 <= b: both ends are clamped to the length
PySlice(s, a, b) ==
    LET lo == Min(a, Len(s))
        hi == Min(b, Len(s))
    IN  IF hi <= lo THEN <<>> ELSE SubSeq(s, lo + 1, hi)

RECURSIVE SumSeq(_)
SumSeq(s) == IF s = <<>> THEN 0 ELSE s[1] + SumSeq(Tail(s))

\* numpy.cumsum of <<0>> \o lens
CumSum(lens) == [k \in 1..(Len(lens) + 1) |-> SumSeq(SubSeq(lens, 1, k - 1))]

RECURSIVE Concat(_)
Concat(arrs) == IF arrs = <<>> THEN <<>> ELSE arrs[1] \o Concat(Tail(arrs))

Reverse(s) == [k \in 1..Len(s) |-> s[Len(s) + 1 - k]]

Zeros(n) == [k \in 1..n |-> QI(0)]

(* ------------------------------ the store ----------------------------- *)
VARIABLES
    loaded,      \* _data is not None
    data,        \* _data: the rows of the stacked buffer
    dataRef,     \* identity of the array object _data refers to
    sliceShape,  \* _data.shape[1:]
    bounds,      \* _bounds
    origin,      \* origin: one 3-vector per item
    spacing,     \* spacing: one 3-vector per item
    pc,          \* "idle", or "running" while the tasks of a parallel call run
    op,          \* the current (or last) call and its keyword arguments
    task,        \* per item: "none", "pending", "ok" or "failed"
    outs,        \* per item: what its task returned
    res,         \* the destination buffer shared by the tasks of a rebuild
    resSlice,    \* its extents along y and x
    resRef,      \* identity of the destination buffer (0: none)
    descs,       \* all_args: the per-item descriptors the init function built
    completed,   \* the items in the order their tasks completed
    pre,         \* the store as it was when the current (or last) call began
    prev,        \* the call before it, when the second of two calls is checked against it
    err,         \* the exception the last call raised ("none": it returned)
    calls,       \* the number of calls begun so far
    ret,         \* what the last call returned
    fs,          \* per item: the directory dst/<id> and the files in it
    crop,        \* _crop_centers and _crop_sizes
    kwargs_default,      \* pipelines.kwargs_default, the module-level dict
    args_unify_spacing,  \* the keywords the last pipeline gives to unify_spacing
    pipeline,            \* the function that built the last pipeline
    kwargs,              \* the **kwargs of that call
    overridden,          \* the keys overridden by some call so far
    built                \* the number of pipelines built so far

storeVars == <<loaded, data, dataRef, sliceShape, bounds, origin, spacing>>

opVars == <<pc, op, task, outs, res, resSlice, resRef, descs, completed>>

pipeVars == <<kwargs_default, args_unify_spacing, pipeline, kwargs, overridden, built>>

batchVars == <<loaded, data, dataRef, sliceShape, bounds, origin, spacing,
               pc, op, task, outs, res, resSlice, resRef, descs, completed, pre, prev,
               err, calls, ret, fs, crop>>

vars == <<loaded, data, dataRef, sliceShape, bounds, origin, spacing,
          pc, op, task, outs, res, resSlice, resRef, descs, completed, pre, prev, err, calls, ret, fs,
          crop, kwargs_default, args_unify_spacing, pipeline, kwargs, overridden, built>>

Items == 1..N

\* the identifiers of the index, in index order
IdPool == <<"a", "b", "c", "d", "e", "f">>

Index == SubSeq(IdPool, 1, N)

\* the store as one value
Store == [loaded |-> loaded, data |-> data, dataRef |-> dataRef,
          sliceShape |-> sliceShape, bounds |-> bounds,
          origin |-> origin, spacing |-> spacing]

\* np.zeros((len(self), 3)) and np.ones((len(self), 3))
ZerosN3 == [i \in Items |-> VInt(<<0, 0, 0>>)]

OnesN3 == [i \in Items |-> VInt(<<1, 1, 1>>)]

NoBatch == [loaded |-> FALSE, data |-> <<>>, dataRef |-> 0, sliceShape |-> <<0, 0>>,
            bounds |-> <<>>, origin |-> ZerosN3, spacing |-> OnesN3]

\* the lower bounds taken from the wrong end
lower_bounds_shifted(b) == IF b = <<>> THEN <<>> ELSE SubSeq(b, 2, Len(b))

lower_bounds(b) == IF b = <<>> THEN <<>> ELSE SubSeq(b, 1, Len(b) - 1)

upper_bounds(b) == IF b = <<>> THEN <<>> ELSE SubSeq(b, 2, Len(b))

\* shape: one <<z, y, x>> per item
shape(st) ==
    [i \in Items |-> <<upper_bounds(st.bounds)[i] - lower_bounds(st.bounds)[i],
                       st.sliceShape[1], st.sliceShape[2]>>]

\* _get_verified_pos: index is [isInt |-> TRUE, val |-> k] or [isInt |-> FALSE, val |-> id]
IdPos(id) == CHOOSE p \in 0..(N - 1) : Index[p + 1] = id

\* the last position is refused
get_verified_pos_strict(index) ==
    IF index.isInt
    THEN IF index.val < N - 1 /\ index.val >= 0
         THEN [err |-> "none", pos |-> index.val]
         ELSE [err |-> "IndexError", pos |-> -1]
    ELSE IF \E p \in 1..N : Index[p] = index.val
         THEN [err |-> "none", pos |-> IdPos(index.val)]
         ELSE [err |-> "KeyError", pos |-> -1]

get_verified_pos(index) ==
    IF index.isInt
    THEN IF index.val < N /\ index.val >= 0
         THEN [err |-> "none", pos |-> index.val]
         ELSE [err |-> "IndexError", pos |-> -1]
    ELSE IF \E p \in 1..N : Index[p] = index.val
         THEN [err |-> "none", pos |-> IdPos(index.val)]
         ELSE [err |-> "KeyError", pos |-> -1]

\* get_image for a verified position (0-based): a view on the item's rows
get_image(st, pos) ==
    PySlice(st.data, lower_bounds(st.bounds)[pos + 1], upper_bounds(st.bounds)[pos + 1])

\* rescale: (self.spacing * self.shape) / new_shape
rescale(st, new_shape) ==
    [i \in Items |-> VDiv(VMul(st.spacing[i], VInt(shape(st)[i])), VInt(new_shape))]

\* _init_data with every argument given
init_data(source, srcRef, slc, b, org, spc) ==
    /\ loaded' = TRUE
    /\ data' = source
    /\ dataRef' = srcRef
    /\ sliceShape' = slc
    /\ bounds' = b
    /\ origin' = org
    /\ spacing' = spc

\* an array object not referred to by the store or by the tasks in flight
FreshRef == CHOOSE r \in 1..MaxRef : r \notin {dataRef, resRef, ret.batch.dataRef}

(* ------------------------------ calls --------------------------------- *)
\* a call: the operation and the keyword arguments it was given
Call(kind, shapeKw, shp, spacingKw, spc, new_batch) ==
    [kind |-> kind, shapeKw |-> shapeKw, shape |-> shp,
     spacingKw |-> spacingKw, spacing |-> spc, new_batch |-> new_batch,
     step |-> 2, depth |-> 10, index |-> [isInt |-> TRUE, val |-> 0],
     min_hu |-> -1000, max_hu |-> 400,
     patch |-> 0, stride |-> 0, scan |-> <<0, 0, 0>>, patches |-> <<>>,
     fmt |-> "", src |-> <<>>, slice_height |-> <<0, 1>>]

PlainCall(kind) == Call(kind, FALSE, DefaultShape, FALSE, DefaultSpacing, FALSE)

NoRet == [kind |-> "none", pos |-> -1, rows |-> <<>>, batch |-> NoBatch]

RetSelf == [NoRet EXCEPT !.kind = "self"]

\* a directory that does not exist
NoDir == [exists |-> FALSE, files |-> {}]

\* __init__: _crop_centers and _crop_sizes are empty arrays
NoCrop == [centers |-> <<>>, sizes |-> <<>>]

\* the calls whose repetition or inverse is looked at
TrackedKinds == {"flip", "normalize_hu", "get_patches", "dump"}

NoPrev == [op |-> PlainCall("init"), err |-> "none", pre |-> NoBatch]

\* what a beginning call remembers of the call that ended before it
Previous ==
    IF op.kind \in TrackedKinds THEN [op |-> op, err |-> err, pre |-> pre] ELSE NoPrev

\* no tasks in flight
NoTasks ==
    /\ task' = [i \in Items |-> "none"]
    /\ outs' = [i \in Items |-> [rows |-> <<>>, len |-> 0]]
    /\ res' = <<>>
    /\ resSlice' = <<0, 0>>
    /\ resRef' = 0
    /\ descs' = <<>>
    /\ completed' = <<>>

\* a call that runs no tasks begins and ends in one step
Atomic(call, e, r) ==
    /\ pc = "idle"
    /\ calls < MaxCalls
    /\ calls' = calls + 1
    /\ UNCHANGED pipeVars
    /\ pc' = "idle"
    /\ op' = call
    /\ pre' = Store
    /\ prev' = Previous
    /\ fs' = fs
    /\ crop' = crop
    /\ err' = e
    /\ ret' = r
    /\ NoTasks

(* ------------------------ pipelines: the defaults --------------------- *)
\* the keyword dicts are functions from keys to the values' source text
NoKwargs == [k \in {} |-> ""]

\* kwargs_default = dict(shape=SHAPE, spacing=SPACING, resample=RESIZE_FILTER,
\*                       padding=PADDING, method=METHOD)
KwargsDefault ==
    [k \in {"shape", "spacing", "resample", "padding", "method"} |->
        CASE k = "shape" -> "(400, 512, 512)"
          [] k = "spacing" -> "(1.7, 1.0, 1.0)"
          [] k = "resample" -> "PIL.Image.LANCZOS"
          [] k = "padding" -> "reflect"
          [] k = "method" -> "pil-simd"]

\* __init__: _data None, empty bounds, zero origin, unit spacing
Init ==
    /\ loaded = FALSE
    /\ data = <<>>
    /\ dataRef = 0
    /\ sliceShape = <<0, 0>>
    /\ bounds = <<>>
    /\ origin = ZerosN3
    /\ spacing = OnesN3
    /\ pc = "idle"
    /\ op = PlainCall("init")
    /\ task = [i \in Items |-> "none"]
    /\ outs = [i \in Items |-> [rows |-> <<>>, len |-> 0]]
    /\ res = <<>>
    /\ resSlice = <<0, 0>>
    /\ resRef = 0
    /\ descs = <<>>
    /\ completed = <<>>
    /\ pre = NoBatch
    /\ prev = NoPrev
    /\ err = "none"
    /\ calls = 0
    /\ ret = NoRet
    /\ fs = [i \in Items |-> NoDir]
    /\ crop = NoCrop
    /\ kwargs_default = KwargsDefault
    /\ args_unify_spacing = NoKwargs
    /\ pipeline = "none"
    /\ kwargs = NoKwargs
    /\ overridden = {}
    /\ built = 0

(* ------------------------------ inputs -------------------------------- *)
SliceShapes == {<<y, MaxSide>> : y \in 1..MaxSide}

\* the lengths of the items of a source
LenChoices == [Items -> 1..MaxLen]

\* the store of two items of 4 and 6 slices
ScenarioLens == [i \in Items |-> IF i = 1 THEN 4 ELSE 6]

\* items of one length, one slice longer than the largest window cut from them
UniformLens == [i \in Items |-> MaxPatch + 1]

\* a source whose rows can be told apart
Ramp(total, base, step) == [k \in 1..total |-> QI(base + step * k)]

Sources(total) == {Ramp(total, -1280, 280)}

\* origin / spacing arrays a caller passes (None: the keywords are omitted)
MetaArgs == {"None", "given"}

GivenOrigin == [i \in Items |-> VInt(<<i, 0, -i>>)]

GivenSpacing == [i \in Items |-> VInt(<<i + 1, 1, 2>>)]

LensOf(lens) == [i \in Items |-> lens[i]]

\* the arguments tried: short items with every slice shape and metadata, the
\* two longer stores with square slices and default metadata, and one store
\* with only origin or only spacing passed
LoadArgs ==
    (LenChoices \X SliceShapes \X MetaArgs)
        \cup {<<lens, <<MaxSide, MaxSide>>, "None">> : lens \in {ScenarioLens, UniformLens}}
        \cup {<<[i \in Items |-> MaxLen], <<MaxSide, MaxSide>>, m>> : m \in {"origin", "spacing"}}

\* the keywords origin / spacing a load was given
meta_keywords(m) ==
    CASE m = "None" -> <<>>
      [] m = "origin" -> <<"origin">>
      [] m = "spacing" -> <<"spacing">>
      [] OTHER -> <<"origin", "spacing">>

\* an omitted origin leaves the rows the store has
init_origin_kept(m) == IF m \in {"given", "origin"} THEN GivenOrigin ELSE origin

\* _init_data: origin if origin is not None else np.zeros((len(self), 3))
init_origin(m) == IF m \in {"given", "origin"} THEN GivenOrigin ELSE ZerosN3

\* _init_data: spacing if spacing is not None else np.ones((len(self), 3))
init_spacing(m) == IF m \in {"given", "spacing"} THEN GivenSpacing ELSE OnesN3

(* ------------------------------ load ---------------------------------- *)
\* load(fmt='ndarray', source, bounds, origin, spacing) with arrays that
\* satisfy the store's invariants
LoadNdarray ==
    \E arg \in LoadArgs :
      LET lens == arg[1]
          slc == arg[2]
          m == arg[3]
      IN
      \E source \in Sources(SumSeq(LensOf(lens))) :
        /\ Atomic([PlainCall("load_ndarray") EXCEPT !.fmt = "ndarray",
                                                    !.src = meta_keywords(m)],
                  "none", RetSelf)
        /\ init_data(source, FreshRef, slc, CumSum(LensOf(lens)),
                     init_origin(m), init_spacing(m))

(* ------------------- the scatter / gather framework ------------------- *)
\* the rows [lo, hi) a view s[a:b] covers in an array of n rows
ViewRange(n, a, b) ==
    LET lo == Min(a, n)
        hi == Max(lo, Min(b, n))
    IN  [lo |-> lo, hi |-> hi]

NoDesc(i) == [item |-> i, plo |-> 0, phi |-> 0, lo |-> 0, hi |-> 0,
              res_factor |-> VInt(<<1, 1, 1>>)]

\* init='indices': one descriptor per identifier, in index order
init_indices == [i \in Items |-> NoDesc(i)]

\* _init_images: the view of every item, in index order
init_images(st) ==
    [i \in Items |->
        LET v == ViewRange(Len(st.data), lower_bounds(st.bounds)[i],
                           upper_bounds(st.bounds)[i])
        IN  [NoDesc(i) EXCEPT !.plo = v.lo, !.phi = v.hi]]

\* the destination is cut with the old bounds whatever the target shape
rebuild_bounds_old(st, call) == st.bounds

\* _init_rebuild: the destination buffer new_data and its bounds
rebuild_bounds(st, call) ==
    IF call.shapeKw
    THEN [k \in 1..(N + 1) |-> call.shape[1] * (k - 1)]
    ELSE st.bounds

rebuild_rows(st, call) ==
    IF call.shapeKw THEN call.shape[1] * N ELSE Len(st.data)

rebuild_slice(st, call) ==
    IF call.shapeKw THEN <<call.shape[2], call.shape[3]>> ELSE st.sliceShape

\* _init_rebuild: all_args, one descriptor per item in index order
init_rebuild(st, call) ==
    [i \in Items |->
        LET nb == rebuild_bounds(st, call)
            p  == ViewRange(Len(st.data), lower_bounds(st.bounds)[i],
                            upper_bounds(st.bounds)[i])
            o  == ViewRange(rebuild_rows(st, call), nb[i], nb[i + 1])
        IN  [item |-> i, plo |-> p.lo, phi |-> p.hi, lo |-> o.lo, hi |-> o.hi,
             res_factor |-> IF call.spacingKw
                            THEN VDiv(st.spacing[i], VInt(call.spacing))
                            ELSE VInt(<<1, 1, 1>>)]]

\* the decorated method is entered: init builds the descriptors, one task
\* per descriptor is submitted
Start(call, ds, rows, rslc, rref) ==
    /\ pc = "idle"
    /\ calls < MaxCalls
    /\ calls' = calls + 1
    /\ UNCHANGED pipeVars
    /\ pc' = "running"
    /\ op' = call
    /\ pre' = Store
    /\ prev' = Previous
    /\ fs' = fs
    /\ crop' = crop
    /\ err' = "none"
    /\ ret' = NoRet
    /\ task' = [i \in Items |-> "pending"]
    /\ outs' = [i \in Items |-> [rows |-> <<>>, len |-> 0]]
    /\ res' = rows
    /\ resSlice' = rslc
    /\ resRef' = rref
    /\ descs' = ds
    /\ completed' = <<>>
    /\ UNCHANGED storeVars

\* the tasks write into the array the store holds
rebuild_dest_ref_inplace == dataRef

\* np.zeros / np.zeros_like: new_data is a new array object
rebuild_dest_ref == FreshRef

StartRebuild(call) ==
    /\ loaded
    /\ Len(bounds) = N + 1
    /\ Start(call, init_rebuild(Store, call), Zeros(rebuild_rows(Store, call)),
             rebuild_slice(Store, call), rebuild_dest_ref)

\* the view a descriptor's 'patient' is
Patient(d) == PySlice(data, d.plo, d.phi)

\* any_action_failed on the gathered results
any_action_failed == \E i \in Items : task[i] = "failed"

AllDone == \A i \in Items : task[i] \in {"ok", "failed"}

\* the results in the order of the descriptors they were submitted for
all_outputs == [k \in 1..Len(descs) |-> outs[descs[k].item]]

\* the call ends: no task is left
Finish(e, r) ==
    /\ pc' = "idle"
    /\ err' = e
    /\ ret' = r
    /\ UNCHANGED <<op, pre, prev, task, outs, res, resSlice, resRef, descs, completed, calls, pipeVars, fs, crop>>

\* a task raises: the framework keeps the exception as its result
TaskFail(i) ==
    /\ pc = "running"
    /\ op.kind # "load_blosc"
    /\ task[i] = "pending"
    /\ task' = [task EXCEPT ![i] = "failed"]
    /\ completed' = Append(completed, i)
    /\ UNCHANGED <<storeVars, pc, op, outs, res, resSlice, resRef, descs, pre, prev, err, calls, pipeVars, ret, fs, crop>>

(* ------------------------------ kernels ------------------------------- *)
\* spline interpolation of order 0 of a volume to n rows
Interpolate(patient, n) ==
    [k \in 1..n |-> patient[((k - 1) * Len(patient)) \div n + 1]]

\* centre crop, or edge padding, of a volume to n rows
CropPad(v, n) ==
    LET over == Len(v) - n
        shift == over \div 2
    IN  [k \in 1..n |-> v[Max(1, Min(Len(v), k + shift))]]

\* resize_patient_numba: to the shape of out_patient; with a res_factor the
\* volume is first resized by the factor, then cropped / padded
resize_patient(patient, n, with_factor, res_factor) ==
    IF with_factor
    THEN CropPad(Interpolate(patient, Rint(QMul(QI(Len(patient)), res_factor[1]))), n)
    ELSE Interpolate(patient, n)

resize_defined(patient, with_factor, res_factor) ==
    /\ Len(patient) >= 1
    /\ with_factor => Rint(QMul(QI(Len(patient)), res_factor[1])) >= 1

\* flip_patient_numba: the slices of one item in reverse order
flip_patient(patient) == Reverse(patient)

\* calc_lung_mask_numba: a binary volume of the shape of the item; what is
\* lung depends on the erosion radius
lung_masks(patient) ==
    {[k \in 1..Len(patient) |-> IF QLess(patient[k], QI(t)) THEN QI(1) ELSE QI(0)] :
        t \in {-2000, -500}}

\* xip_fn_numba (axial, max): the maximum over `depth` rows, every `step` rows
MaxOf(v) == CHOOSE m \in {v[k] : k \in 1..Len(v)} :
                \A k \in 1..Len(v) : ~QLess(m, v[k])

xip(patient, step, depth) ==
    [k \in 1..((Len(patient) - 1) \div step + 1) |->
        MaxOf(SubSeq(patient, (k - 1) * step + 1,
                     Min(Len(patient), (k - 1) * step + depth)))]

\* what the task of descriptor d can write into its out_patient view
rebuild_outputs(call, d) ==
    LET patient == Patient(d)
        n == d.hi - d.lo
    IN  CASE call.kind \in {"resize", "unify_spacing"} ->
                IF resize_defined(patient, call.spacingKw, d.res_factor)
                THEN {resize_patient(patient, n, call.spacingKw, d.res_factor)}
                ELSE {}
          [] call.kind = "flip" ->
                IF Len(patient) = n THEN {flip_patient(patient)} ELSE {}
          [] call.kind \in {"calc_lung_mask", "segment"} ->
                IF Len(patient) = n THEN lung_masks(patient) ELSE {}
          [] OTHER -> {}

RebuildKinds == {"resize", "unify_spacing", "flip", "calc_lung_mask", "segment"}

\* the task writes its result over the rows of its item in the store's buffer
TaskRebuild_source(i) ==
    /\ pc = "running"
    /\ op.kind \in RebuildKinds
    /\ task[i] = "pending"
    /\ \E out \in rebuild_outputs(op, descs[i]) :
         /\ data' = [k \in 1..Len(data) |->
                      IF descs[i].plo < k /\ k <= descs[i].phi
                            /\ k - descs[i].plo <= Len(out)
                      THEN out[k - descs[i].plo] ELSE data[k]]
         /\ outs' = [outs EXCEPT ![i] = [rows |-> <<>>, len |-> descs[i].hi - descs[i].lo]]
    /\ task' = [task EXCEPT ![i] = "ok"]
    /\ completed' = Append(completed, i)
    /\ UNCHANGED <<loaded, dataRef, sliceShape, bounds, origin, spacing, res,
                   pc, op, resSlice, resRef, descs, pre, prev, err, calls, pipeVars, ret, fs, crop>>

\* a task of a rebuild writes its result into its slice of the shared
\* buffer and returns (res, out_patient.shape)
TaskRebuild(i) ==
    /\ pc = "running"
    /\ op.kind \in RebuildKinds
    /\ task[i] = "pending"
    /\ \E out \in rebuild_outputs(op, descs[i]) :
         /\ res' = [k \in 1..Len(res) |->
                      IF descs[i].lo < k /\ k <= descs[i].hi
                      THEN out[k - descs[i].lo] ELSE res[k]]
         /\ outs' = [outs EXCEPT ![i] = [rows |-> <<>>, len |-> descs[i].hi - descs[i].lo]]
    /\ task' = [task EXCEPT ![i] = "ok"]
    /\ completed' = Append(completed, i)
    /\ UNCHANGED <<storeVars, pc, op, resSlice, resRef, descs, pre, prev, err, calls, pipeVars, ret, fs, crop>>

\* the batch a call builds with type(self)(self.index).load(fmt='ndarray', ...)
Batch(source, ref, slc, b, org, spc) ==
    [loaded |-> TRUE, data |-> source, dataRef |-> ref, sliceShape |-> slc,
     bounds |-> b, origin |-> org, spacing |-> spc]

\* _post_rebuild: the spacing and the origin of the rebuilt batch
shape_after_resize(st, call) ==
    [i \in Items |->
        [a \in 1..3 |-> Rint(QDiv(QMul(QI(shape(st)[i][a]), st.spacing[i][a]),
                                  QI(call.spacing[a])))]]

rebuild_spacing(st, call) ==
    IF call.spacingKw
    THEN [i \in Items |->
            VDiv(VMul(st.spacing[i], VInt(shape(st)[i])),
                 VInt(shape_after_resize(st, call)[i]))]
    ELSE IF call.shapeKw THEN rescale(st, call.shape) ELSE st.spacing

rebuild_origin(st, call) ==
    IF call.spacingKw
    THEN [i \in Items |->
            LET overshoot == [a \in 1..3 |->
                                shape_after_resize(st, call)[i][a] - call.shape[a]]
            IN  VAdd(st.origin[i],
                     VMul(rebuild_spacing(st, call)[i],
                          VInt([a \in 1..3 |-> overshoot[a] \div 2])))]
    ELSE st.origin

\* np.cumsum of the first extents the tasks returned
rebuild_new_bounds == CumSum([k \in 1..Len(descs) |-> all_outputs[k].len])

\* the check looks at the first result only
post_rebuild_failed_first == task[descs[1].item] = "failed"

\* _post_rebuild: if any_action_failed(all_outputs): raise ValueError
post_rebuild_failed == any_action_failed

\* _post_rebuild
PostRebuild ==
    /\ pc = "running"
    /\ op.kind \in RebuildKinds \ {"segment"}
    /\ AllDone
    /\ IF post_rebuild_failed
       THEN /\ Finish("ValueError", NoRet)
            /\ UNCHANGED storeVars
       ELSE IF op.spacingKw /\ ~op.shapeKw
       THEN /\ Finish("KeyError", NoRet)
            /\ UNCHANGED storeVars
       ELSE IF op.new_batch
       THEN /\ Finish("none", [NoRet EXCEPT !.kind = "batch",
                        !.batch = Batch(res, resRef, resSlice, rebuild_new_bounds,
                                        rebuild_origin(Store, op),
                                        rebuild_spacing(Store, op))])
            /\ UNCHANGED storeVars
       ELSE /\ Finish("none", RetSelf)
            /\ init_data(res, resRef, resSlice, rebuild_new_bounds,
                         rebuild_origin(Store, op), rebuild_spacing(Store, op))

\* the result is written into the array the store holds
pointwise_ref_inplace == dataRef

\* self._data = <expression>: the name is bound to the array the expression
\* allocates; the in-place statements after it write that array
pointwise_ref == FreshRef

\* the voxels outside the mask are zeroed and not filled
segment_data_unfilled(buf, lungs_mask) ==
    [k \in 1..Len(buf) |-> QMul(buf[k], lungs_mask[k])]

\* segment: the mask batch calc_lung_mask returned is applied to the buffer
segment_data(buf, lungs_mask) ==
    [k \in 1..Len(buf) |->
        QAdd(QMul(buf[k], lungs_mask[k]),
             QMul(QSub(QI(1), lungs_mask[k]), QI(DARK_HU)))]

PostSegment ==
    /\ pc = "running"
    /\ op.kind = "segment"
    /\ AllDone
    /\ IF post_rebuild_failed
       THEN /\ Finish("ValueError", NoRet)
            /\ UNCHANGED storeVars
       ELSE /\ Finish("none", RetSelf)
            /\ data' = segment_data(data, res)
            /\ dataRef' = pointwise_ref
            /\ UNCHANGED <<loaded, sliceShape, bounds, origin, spacing>>

(* ---------------------------- accumulate ------------------------------ *)
Wrap16(x) == ((x + 32768) % 65536) - 32768

\* the files of a folder sorted by int(ImagePositionPatient[2]), largest first
RECURSIVE SortDesc(_)
SortDesc(files) ==
    IF files = <<>> THEN <<>>
    ELSE LET m == CHOOSE k \in 1..Len(files) :
                    /\ \A j \in 1..Len(files) : files[j].z <= files[k].z
                    /\ \A j \in 1..(k - 1) : files[j].z < files[k].z
         IN  <<files[m]>> \o SortDesc(SubSeq(files, 1, m - 1) \o
                                      SubSeq(files, m + 1, Len(files)))

\* _load_dicom: the slices of one patient stacked and converted to HU
load_dicom_item(folder) ==
    LET sorted == SortDesc(folder)
        slope == sorted[1].slope
        intercept == sorted[1].intercept
        px == [k \in 1..Len(sorted) |-> Wrap16(sorted[k].px)]
        air == [k \in 1..Len(px) |-> IF px[k] = AIR_HU THEN 0 ELSE px[k]]
        scaled == IF slope # 1
                  THEN [k \in 1..Len(air) |-> Wrap16(slope * air[k])]
                  ELSE air
    IN  [k \in 1..Len(scaled) |-> QI(Wrap16(scaled[k] + Wrap16(intercept)))]

DicomFile(z, px, slope, intercept) ==
    [z |-> z, px |-> px, slope |-> slope, intercept |-> intercept]

\* the folders item i may be read from: l files, in directory order
Folder(i, l) ==
    [k \in 1..l |-> DicomFile(k, IF k = 2 THEN AIR_HU ELSE 100 * i + k,
                              IF l = 1 THEN 1 ELSE 2, -1024)]

Folders(i) == {Folder(i, l) : l \in 1..MaxLen}

accumulate_outputs(call, i) ==
    CASE call.kind = "load_dicom" -> {load_dicom_item(f) : f \in Folders(i)}
      [] call.kind = "make_xip" ->
            IF Len(Patient(descs[i])) >= 1
            THEN {xip(Patient(descs[i]), call.step, call.depth)}
            ELSE {}
      [] OTHER -> {}

AccumulateKinds == {"load_dicom", "make_xip"}

\* a task of an accumulate call returns the array it built
TaskAccumulate(i) ==
    /\ pc = "running"
    /\ op.kind \in AccumulateKinds
    /\ task[i] = "pending"
    /\ \E out \in accumulate_outputs(op, i) :
         outs' = [outs EXCEPT ![i] = [rows |-> out, len |-> Len(out)]]
    /\ task' = [task EXCEPT ![i] = "ok"]
    /\ completed' = Append(completed, i)
    /\ UNCHANGED <<storeVars, pc, op, res, resSlice, resRef, descs, pre, prev, err, calls, pipeVars, ret, fs, crop>>

\* the assignment takes the identifier as a position: the task writes the
\* row of its item in the store's origin
TaskBlosc_assigns(i) ==
    /\ pc = "running"
    /\ op.kind = "load_blosc"
    /\ task[i] = "pending"
    /\ origin' = [origin EXCEPT ![i] = VInt(<<10 * i + 3, 10 * i + 2, 10 * i + 1>>)]
    /\ task' = [task EXCEPT ![i] = "ok"]
    /\ completed' = Append(completed, i)
    /\ UNCHANGED <<loaded, data, dataRef, sliceShape, bounds, spacing,
                   pc, op, outs, res, resSlice, resRef, descs, pre, prev, err, calls, pipeVars, ret, fs, crop>>

\* _load_blosc: the component read for patient_id is assigned with
\* getattr(self, source)[patient_id] = component; the components are
\* position-indexed arrays (or None), the key is an identifier: it raises
TaskBlosc(i) ==
    /\ pc = "running"
    /\ op.kind = "load_blosc"
    /\ task[i] = "pending"
    /\ task' = [task EXCEPT ![i] = "failed"]
    /\ completed' = Append(completed, i)
    /\ UNCHANGED <<storeVars, pc, op, outs, res, resSlice, resRef, descs, pre, prev, err, calls, pipeVars, ret, fs, crop>>

\* the results are concatenated in the order the tasks completed
post_default_data_completion ==
    Concat([k \in 1..Len(completed) |-> outs[completed[k]].rows])

\* _post_default: new_data and new_bounds
post_default_data == Concat([k \in 1..Len(descs) |-> all_outputs[k].rows])

post_default_bounds == CumSum([k \in 1..Len(descs) |-> Len(all_outputs[k].rows)])

\* only the last result is looked at
post_default_failed_last == task[descs[Len(descs)].item] = "failed"

\* _post_default: if any_action_failed(list_of_arrs): raise ValueError
post_default_failed == any_action_failed

\* _post_default(update, new_batch)
PostDefault(update, new_batch) ==
    /\ pc = "running"
    /\ AllDone
    /\ IF post_default_failed
       THEN /\ Finish("ValueError", NoRet)
            /\ UNCHANGED storeVars
       ELSE IF ~update
       THEN /\ Finish("none", RetSelf)
            /\ UNCHANGED storeVars
       ELSE IF new_batch
       THEN /\ Finish("none", [NoRet EXCEPT !.kind = "batch",
                        !.batch = Batch(post_default_data, FreshRef, resSlice,
                                        post_default_bounds, origin, spacing)])
            /\ UNCHANGED storeVars
       ELSE /\ Finish("none", RetSelf)
            /\ init_data(post_default_data, FreshRef, resSlice,
                         post_default_bounds, origin, spacing)

PostLoadDicom == op.kind = "load_dicom" /\ PostDefault(TRUE, FALSE)

PostLoadBlosc == op.kind = "load_blosc" /\ PostDefault(FALSE, FALSE)

PostMakeXip == op.kind = "make_xip" /\ PostDefault(TRUE, TRUE)

(* ------------------------- the parallel calls ------------------------- *)
TargetShapes == {<<z, Min(z, MaxSide), MaxSide>> : z \in 1..MaxZ} \cup
                {<<5, MaxSide, MaxSide>>}

TargetSpacings == {<<2, 1, 1>>}

XipArgs == {<<2, 10>>, <<1, 2>>}

\* load(fmt='dicom'): every patient folder holds slices of one shape
LoadDicom ==
    \E slc \in {<<MaxSide, MaxSide>>} :
        /\ ~loaded
        /\ Start(PlainCall("load_dicom"), init_indices, <<>>, slc, 0)

\* the components load(fmt='blosc', src_blosc=...) is asked for
BloscSources == {<<"data">>, <<"data", "origin", "spacing">>}

\* load(fmt='blosc')
LoadBlosc ==
    \E src \in BloscSources :
        /\ ~loaded
        /\ Start([PlainCall("load_blosc") EXCEPT !.fmt = "blosc", !.src = src],
                 init_indices, <<>>, <<0, 0>>, 0)

\* resize(shape=...), or resize() with the shape left to its default
Resize ==
    \/ \E shp \in TargetShapes :
            StartRebuild(Call("resize", TRUE, shp, FALSE, DefaultSpacing, FALSE))
    \/ StartRebuild(Call("resize", FALSE, DefaultShape, FALSE, DefaultSpacing, FALSE))

\* every item keeps at least one voxel along every axis at the target spacing
unify_defined(st, call) ==
    \A i \in Items : \A a \in 1..3 : shape_after_resize(st, call)[i][a] >= 1

\* unify_spacing with spacing and shape given by keyword or left to their defaults
UnifySpacing ==
    \E shapeKw \in BOOLEAN, spacingKw \in BOOLEAN :
      \E shp \in IF ~shapeKw THEN {DefaultShape}
                 ELSE IF spacingKw THEN TargetShapes ELSE {<<1, 1, MaxSide>>},
         spc \in IF spacingKw THEN TargetSpacings ELSE {DefaultSpacing} :
        /\ loaded /\ Len(bounds) = N + 1
        /\ spacingKw => unify_defined(Store, Call("unify_spacing", shapeKw, shp, spacingKw, spc, FALSE))
        /\ StartRebuild(Call("unify_spacing", shapeKw, shp, spacingKw, spc, FALSE))

Flip == StartRebuild(PlainCall("flip"))

CalcLungMask == StartRebuild([PlainCall("calc_lung_mask") EXCEPT !.new_batch = TRUE])

\* segment: begins with self.calc_lung_mask(erosion_radius=erosion_radius)
Segment == StartRebuild(PlainCall("segment"))

MakeXip ==
    \E a \in XipArgs :
        /\ loaded
        /\ Len(bounds) = N + 1
        /\ Start([PlainCall("make_xip") EXCEPT !.new_batch = TRUE,
                                               !.step = a[1], !.depth = a[2]],
                 init_images(Store), <<>>, sliceShape, 0)

(* ---------------------------- load(fmt='raw') ------------------------- *)
\* what sitk.ReadImage yields for item i: the volume, and its origin and
\* spacing in the order x, y, z
RawImage(i, l) ==
    [rows |-> [k \in 1..l |-> QI(-1000 + 280 * (k + i))],
     origin |-> <<10 * i + 1, 10 * i + 2, 10 * i + 3>>,
     spacing |-> <<1, 2, 3 + i>>]

\* the axes are kept in the order of the file
Reversed3_kept(t) == t

Reversed3(t) == <<t[3], t[2], t[1]>>

\* _load_raw: items are read one after the other; reading item `fail`
\* raises (fail = N + 1: no read fails)
LoadRaw ==
    \E lens \in LenChoices, slc \in {<<MaxSide, MaxSide>>}, fail \in 1..(N + 1) :
        LET img == [i \in Items |-> RawImage(i, lens[i])]
            read == 1..(fail - 1)
        IN  /\ ~loaded
            /\ Atomic([PlainCall("load_raw") EXCEPT
                            !.patches = [i \in Items |-> img[i].rows]],
                      IF fail <= N THEN "RuntimeError" ELSE "none",
                      IF fail <= N THEN NoRet ELSE RetSelf)
            /\ origin' = [i \in Items |-> IF i \in read
                                          THEN VInt(Reversed3(img[i].origin))
                                          ELSE origin[i]]
            /\ spacing' = [i \in Items |-> IF i \in read
                                           THEN VInt(Reversed3(img[i].spacing))
                                           ELSE spacing[i]]
            /\ IF fail <= N
               THEN UNCHANGED <<loaded, data, dataRef, sliceShape, bounds>>
               ELSE /\ loaded' = TRUE
                    /\ data' = Concat([i \in Items |-> img[i].rows])
                    /\ dataRef' = FreshRef
                    /\ sliceShape' = slc
                    /\ bounds' = CumSum([i \in Items |-> Len(img[i].rows)])

(* ---------------------------- point-wise ------------------------------ *)
HuLims == {<<-1000, 400>>, <<0, 255>>}

Clip01(q) == IF QLess(QI(1), q) THEN QI(1) ELSE IF QLess(q, QI(0)) THEN QI(0) ELSE q

\* the values below min_hu are not trimmed
normalize_hu_untrimmed(buf, min_hu, max_hu) ==
    [k \in 1..Len(buf) |->
        LET q == QDiv(QSub(buf[k], QI(min_hu)), QI(max_hu - min_hu))
        IN  QMul(IF QLess(QI(1), q) THEN QI(1) ELSE q, QI(255))]

normalize_hu(buf, min_hu, max_hu) ==
    [k \in 1..Len(buf) |->
        QMul(Clip01(QDiv(QSub(buf[k], QI(min_hu)), QI(max_hu - min_hu))), QI(255))]

\* normalize_hu(min_hu, max_hu)
NormalizeHu ==
    \E lim \in HuLims :
        /\ loaded
        /\ Atomic([PlainCall("normalize_hu") EXCEPT !.min_hu = lim[1], !.max_hu = lim[2]],
                  "none", RetSelf)
        /\ data' = normalize_hu(data, lim[1], lim[2])
        /\ dataRef' = pointwise_ref
        /\ UNCHANGED <<loaded, sliceShape, bounds, origin, spacing>>

(* ------------------------------ patches ------------------------------- *)
\* calc_padding_size along one axis: the rows to add before and after so
\* that windows of p rows every s rows fit exactly
calc_padding_size(ext, p, s) ==
    LET overshoot == (ext - p) % s
        pad == IF overshoot = 0 THEN 0 ELSE s - overshoot
    IN  <<pad \div 2, pad - pad \div 2>>

\* np.pad(..., mode='edge') along the first axis
pad_edge(v, before, after) ==
    [k \in 1..(Len(v) + before + after) |-> v[Max(1, Min(Len(v), k - before))]]

num_sections(ext, p, s) == (ext - p) \div s + 1

\* put_patches_numba: the windows of one padded item, in order
put_patches(padded, p, s) ==
    [j \in 1..num_sections(Len(padded), p, s) |->
        SubSeq(padded, (j - 1) * s + 1, (j - 1) * s + p)]

\* the windows come window by window: the first of every item, then the second
get_patches_window_major(buf, ext, p, s) ==
    LET w == calc_padding_size(ext, p, s)
        per == num_sections(ext + w[1] + w[2], p, s)
        cut == [i \in Items |->
                  put_patches(pad_edge(SubSeq(buf, (i - 1) * ext + 1, i * ext), w[1], w[2]),
                              p, s)]
    IN  [k \in 1..(N * per) |-> cut[((k - 1) % N) + 1][((k - 1) \div N) + 1]]

\* get_patches along z for a batch whose items all have `ext` rows
get_patches(buf, ext, p, s) ==
    Concat([i \in Items |->
        LET w == calc_padding_size(ext, p, s)
        IN  put_patches(pad_edge(SubSeq(buf, (i - 1) * ext + 1, i * ext), w[1], w[2]),
                        p, s)])

\* assemble_patches: one item from its windows, overlaps averaged
assemble_item(patches, p, s, ext) ==
    [k \in 1..ext |->
        LET cover == {j \in 1..Len(patches) : (j - 1) * s < k /\ k <= (j - 1) * s + p}
            RECURSIVE Total(_)
            Total(js) == IF js = {} THEN QI(0)
                         ELSE LET j == CHOOSE x \in js : TRUE
                              IN  QAdd(patches[j][k - (j - 1) * s], Total(js \ {j}))
        IN  IF cover = {} THEN QI(0)
            ELSE QDiv(Total(cover), QI(Cardinality(cover)))]

\* the padding is cropped from the front only
load_from_patches_tail(patches, s, scan_z) ==
    LET p == Len(patches[1])
        w == calc_padding_size(scan_z, p, s)
        adj == scan_z + w[1] + w[2]
        per == Len(patches) \div N
    IN  Concat([i \in Items |->
            SubSeq(assemble_item(SubSeq(patches, (i - 1) * per + 1, i * per), p, s, adj),
                   adj - scan_z + 1, adj)])

\* the padding is left on the assembled items
load_from_patches_uncropped(patches, s, scan_z) ==
    LET p == Len(patches[1])
        w == calc_padding_size(scan_z, p, s)
        adj == scan_z + w[1] + w[2]
        per == Len(patches) \div N
    IN  Concat([i \in Items |->
            assemble_item(SubSeq(patches, (i - 1) * per + 1, i * per), p, s, adj)])

\* load_from_patches along z: the skyscraper assembled from the patches
load_from_patches(patches, s, scan_z) ==
    LET p == Len(patches[1])
        w == calc_padding_size(scan_z, p, s)
        adj == scan_z + w[1] + w[2]
        per == Len(patches) \div N
    IN  Concat([i \in Items |->
            SubSeq(assemble_item(SubSeq(patches, (i - 1) * per + 1, i * per), p, s, adj),
                   w[1] + 1, adj - w[2])])

\* the strides tried: windows that overlap, abut, or leave gaps
Strides == 1..MaxPatch

\* get_patches(patch_shape, stride): reshape raises when the buffer is not a
\* whole number of volumes of the first item's shape; the store is not touched
GetPatches ==
    \E p \in 1..MaxPatch, s \in Strides :
        LET ext == shape(Store)[1][1]
            call == [PlainCall("get_patches") EXCEPT !.patch = p, !.stride = s]
        IN  /\ loaded
            /\ Len(bounds) = N + 1
            /\ 1 <= p /\ p <= ext
            /\ \/ /\ Len(data) = N * ext
                  /\ Atomic(call, "none",
                            [NoRet EXCEPT !.kind = "patches",
                                          !.rows = get_patches(data, ext, p, s)])
               \/ /\ Len(data) % ext # 0
                  /\ Atomic(call, "ValueError", NoRet)
            /\ UNCHANGED storeVars

\* the patches handed to load_from_patches: those of some volume of N scans
\* of scan_z slices, or those get_patches has just returned
PatchArgs(scan_z) ==
    {[patches |-> get_patches(Ramp(N * scan_z, -1280, 280), scan_z, p, s), stride |-> s] :
        p \in 1..Min(MaxPatch, scan_z), s \in 1..Min(MaxPatch, Min(MaxZ, scan_z))}
    \cup (IF ret.kind = "patches" THEN {[patches |-> ret.rows, stride |-> op.stride]} ELSE {})

\* the patches are as many as the scans of scan_z slices are cut into
patches_fit(arg, scan_z) ==
    LET p == Len(arg.patches[1])
        w == calc_padding_size(scan_z, p, arg.stride)
    IN  /\ p <= scan_z
        /\ Len(arg.patches) = N * num_sections(scan_z + w[1] + w[2], p, arg.stride)

\* load_from_patches(patches, stride, scan_shape); windows span whole slices.
\* It reads len(self) and assigns _data only, on a store that holds data or not
LoadFromPatches ==
    \E scan_z \in 1..MaxZ \cup {MaxPatch + 1}, slc \in SliceShapes :
      \E arg \in PatchArgs(scan_z) :
        /\ patches_fit(arg, scan_z)
        /\ Atomic([PlainCall("load_from_patches") EXCEPT
                        !.patch = Len(arg.patches[1]), !.stride = arg.stride,
                        !.scan = <<scan_z, slc[1], slc[2]>>,
                        !.patches = arg.patches],
                  "none", NoRet)
        /\ data' = load_from_patches(arg.patches, arg.stride, scan_z)
        /\ dataRef' = FreshRef
        /\ sliceShape' = slc
        /\ loaded' = TRUE
        /\ UNCHANGED <<bounds, origin, spacing>>

(* ------------------------------- dump -------------------------------- *)
\* the components dump is asked for
DumpSources == {<<"data">>, <<"data", "origin", "spacing">>}

DumpFormats == {"blosc", "png"}

\* the calls tried: every component list in blosc, the default one otherwise
DumpArgs ==
    {<<src, fmt>> \in DumpSources \X DumpFormats : fmt = "blosc" \/ src = <<"data">>}

\* dump: '.pkl' for attrs, spacing and origin, '.blk' for the rest
component_file(source) ==
    IF source \in {"attrs", "spacing", "origin"} THEN "pkl" ELSE "blk"

\* getattr(self, source)[patient]: the component of the item
component_of(st, source, i) ==
    CASE source = "data" -> get_image(st, i - 1)
      [] source = "origin" -> st.origin[i]
      [] source = "spacing" -> st.spacing[i]

\* dump: data_items, one entry per requested component
data_items(st, src, i) ==
    {[name |-> src[k], ext |-> component_file(src[k]),
      content |-> component_of(st, src[k], i)] : k \in 1..Len(src)}

\* the directory is removed and made anew before the files are written
dump_data_fresh(items, dir) == [exists |-> TRUE, files |-> items]

\* dump_data: the directory is made if it is missing, and each item is
\* written to its file; a file of that name is replaced, others are kept
dump_data(items, dir) ==
    [exists |-> TRUE,
     files |-> {f \in dir.files :
                    \A g \in items : <<g.name, g.ext>> # <<f.name, f.ext>>} \cup items]

\* every format is written as blosc
dump_refused_never(fmt) == FALSE

\* dump: if fmt != 'blosc': raise NotImplementedError
dump_refused(fmt) == fmt # "blosc"

\* dump(dst, src, fmt)
Dump ==
    \E arg \in DumpArgs :
        /\ loaded
        /\ Len(bounds) = N + 1
        /\ Start([PlainCall("dump") EXCEPT !.src = arg[1], !.fmt = arg[2]],
                 init_indices, <<>>, <<0, 0>>, 0)

\* the task of one item: NotImplementedError for a format other than blosc,
\* else the item's components are written into its directory
TaskDump(i) ==
    /\ pc = "running"
    /\ op.kind = "dump"
    /\ task[i] = "pending"
    /\ IF dump_refused(op.fmt)
       THEN /\ task' = [task EXCEPT ![i] = "failed"]
            /\ fs' = fs
       ELSE /\ task' = [task EXCEPT ![i] = "ok"]
            /\ fs' = [fs EXCEPT ![i] = dump_data(data_items(Store, op.src, i), fs[i])]
    /\ completed' = Append(completed, i)
    /\ UNCHANGED <<storeVars, pc, op, outs, res, resSlice, resRef, descs, pre, prev, err, calls, pipeVars, ret, crop>>

PostDump == op.kind = "dump" /\ PostDefault(FALSE, FALSE)

\* CTImagesBatch(index): a fresh store with the index of the dumped one
NewBatch ==
    /\ pc = "idle"
    /\ loaded
    /\ op.kind = "dump"
    /\ err = "none"
    /\ loaded' = FALSE
    /\ data' = <<>>
    /\ dataRef' = 0
    /\ sliceShape' = <<0, 0>>
    /\ bounds' = <<>>
    /\ origin' = ZerosN3
    /\ spacing' = OnesN3
    /\ crop' = NoCrop
    /\ UNCHANGED <<opVars, pre, prev, err, calls, pipeVars, ret, fs>>

(* ------------------------- crop parameters --------------------------- *)
\* return_black_border_array: the box of the non-zero content of one item
\* along z, as <<first row, row after the last, centre>>
rbba(patient) ==
    LET nz == {k \in 1..Len(patient) : patient[k] # QI(0)}
        lo == IF nz = {} THEN 0 ELSE (CHOOSE k \in nz : \A j \in nz : k <= j) - 1
        hi == IF nz = {} THEN 0 ELSE CHOOSE k \in nz : \A j \in nz : j <= k
    IN  <<QI(lo), QI(hi), QI((lo + hi) \div 2)>>

CropKinds == {"crop_centers", "crop_sizes"}

\* the array a property looks at
crop_cache(prop) == IF prop = "crop_centers" THEN crop.centers ELSE crop.sizes

\* crop_centers / crop_sizes: `if not self._crop_...` is true of the empty
\* array, and _crop_params_patients is run; of an array of more than one
\* element the truth value raises ValueError
CropAccess ==
    \E prop \in CropKinds :
        /\ loaded
        /\ Len(bounds) = N + 1
        /\ IF crop_cache(prop) = <<>>
           THEN Start(PlainCall(prop), init_images(Store), <<>>, <<0, 0>>, 0)
           ELSE /\ Atomic(PlainCall(prop), "ValueError", NoRet)
                /\ UNCHANGED storeVars

\* _crop_params_patients: the task of one item
TaskCrop(i) ==
    /\ pc = "running"
    /\ op.kind \in CropKinds
    /\ task[i] = "pending"
    /\ outs' = [outs EXCEPT ![i] = [rows |-> rbba(Patient(descs[i])), len |-> 3]]
    /\ task' = [task EXCEPT ![i] = "ok"]
    /\ completed' = Append(completed, i)
    /\ UNCHANGED <<storeVars, pc, op, res, resSlice, resRef, descs, pre, prev, err, calls, pipeVars, ret, fs, crop>>

\* _post_crop does not look for failed tasks: np.array of a list that holds
\* an exception is a one-dimensional object array and crop_array[:, :, 2]
\* raises IndexError (where np.array refuses ragged lists it raises
\* ValueError when results and exceptions are mixed)
post_crop_errors ==
    IF \A i \in Items : task[i] = "failed" THEN {"IndexError"}
    ELSE {"IndexError", "ValueError"}

\* _post_crop
PostCrop ==
    /\ pc = "running"
    /\ op.kind \in CropKinds
    /\ AllDone
    /\ pc' = "idle"
    /\ IF any_action_failed
       THEN /\ err' \in post_crop_errors
            /\ ret' = NoRet
            /\ crop' = crop
       ELSE /\ err' = "none"
            /\ crop' = [centers |-> [k \in 1..Len(descs) |-> all_outputs[k].rows[3]],
                        sizes |-> [k \in 1..Len(descs) |-> SubSeq(all_outputs[k].rows, 1, 2)]]
            /\ ret' = [NoRet EXCEPT !.kind = "crop", !.rows = IF op.kind = "crop_centers"
                                                             THEN crop'.centers
                                                             ELSE crop'.sizes]
    /\ UNCHANGED <<storeVars, op, pre, prev, task, outs, res, resSlice, resRef, descs,
                   completed, calls, pipeVars, fs>>

(* -------------------------- unknown formats --------------------------- *)
LoadFormats == {"ndarray", "dicom", "blosc", "raw"}

\* a format string load does not know
OtherFormats == {"png"}

\* every format is taken for a known one
load_error_none(fmt) == "none"

\* load: the else branch raises TypeError("Incorrect type of batch source")
load_error(fmt) == IF fmt \in LoadFormats THEN "none" ELSE "TypeError"

\* load(fmt=...) with a format that is none of the four
LoadOther ==
    \E fmt \in OtherFormats :
        /\ Atomic([PlainCall("load") EXCEPT !.fmt = fmt], load_error(fmt),
                  IF load_error(fmt) = "none" THEN RetSelf ELSE NoRet)
        /\ UNCHANGED storeVars

(* ------------------------------ lookups ------------------------------- *)
\* get_image(index) -> a view, or the error of _get_verified_pos
get_image_ret(index) ==
    LET v == get_verified_pos(index)
    IN  IF v.err # "none" THEN NoRet
        ELSE [NoRet EXCEPT !.kind = "image", !.pos = v.pos,
                           !.rows = get_image(Store, v.pos)]

\* get_attrs(index) -> the item's spacing and origin
get_attrs_ret(index) ==
    LET v == get_verified_pos(index)
    IN  IF v.err # "none" THEN NoRet
        ELSE [NoRet EXCEPT !.kind = "attrs", !.pos = v.pos,
                           !.rows = <<spacing[v.pos + 1], origin[v.pos + 1]>>]

IntKeys == {[isInt |-> TRUE, val |-> k] : k \in (-1)..N}

IdKeys == {[isInt |-> FALSE, val |-> id] : id \in {Index[k] : k \in 1..N} \cup {"zz"}}

Lookup(kind, index) ==
    /\ loaded
    /\ Len(bounds) = N + 1
    /\ Atomic([PlainCall(kind) EXCEPT !.index = index],
              get_verified_pos(index).err,
              IF kind = "get_image" THEN get_image_ret(index) ELSE get_attrs_ret(index))
    /\ UNCHANGED storeVars

GetImageAt == \E index \in IntKeys : Lookup("get_image", index)

GetImageOf == \E index \in IdKeys : Lookup("get_image", index)

GetAttrsAt == \E index \in IntKeys : Lookup("get_attrs", index)

GetAttrsOf == \E index \in IdKeys : Lookup("get_attrs", index)

\* the relative heights asked for, each in [0, 1)
SliceHeights == {<<0, 1>>, <<1, 2>>}

\* get_axial_slice(person_number, slice_height): self[person_number] is
\* __getitem__, the tuple (image, attrs, spacing, origin) of a verified
\* person; a tuple has no attribute shape
GetAxialSlice ==
    \E person \in IntKeys \cup IdKeys, h \in SliceHeights :
        /\ loaded
        /\ Len(bounds) = N + 1
        /\ Atomic([PlainCall("get_axial_slice") EXCEPT !.index = person,
                                                       !.slice_height = h],
                  IF get_verified_pos(person).err # "none"
                  THEN get_verified_pos(person).err
                  ELSE "AttributeError",
                  NoRet)
        /\ UNCHANGED storeVars

\* load(fmt='raw') called on the batch that make_xip or calc_lung_mask has
\* just returned. _post_default and _post_rebuild gave that batch the
\* source's own origin and spacing arrays (origin=self.origin,
\* spacing=self.spacing; _init_data binds them without a copy), and _load_raw
\* writes their rows in place before it rebinds _data and _bounds
ReturnedLoadRaw ==
    \E lens \in LenChoices, fail \in 1..(N + 1) :
        LET img == [i \in Items |-> RawImage(i, lens[i])]
            read == 1..(fail - 1)
            written == [i \in Items |-> IF i \in read
                                        THEN VInt(Reversed3(img[i].origin))
                                        ELSE origin[i]]
            spaced == [i \in Items |-> IF i \in read
                                       THEN VInt(Reversed3(img[i].spacing))
                                       ELSE spacing[i]]
        IN  /\ op.kind \in {"make_xip", "calc_lung_mask"}
            /\ op.new_batch
            /\ err = "none"
            /\ ret.kind = "batch"
            /\ Atomic(PlainCall("returned.load_raw"),
                      IF fail <= N THEN "RuntimeError" ELSE "none",
                      IF fail <= N
                      THEN [ret EXCEPT !.batch.origin = written,
                                       !.batch.spacing = spaced]
                      ELSE [ret EXCEPT !.batch =
                                Batch(Concat([i \in Items |-> img[i].rows]), FreshRef,
                                      ret.batch.sliceShape,
                                      CumSum([i \in Items |-> Len(img[i].rows)]),
                                      written, spaced)])
            /\ origin' = written
            /\ spacing' = spaced
            /\ UNCHANGED <<loaded, data, dataRef, sliceShape, bounds>>

Next ==
    \/ ReturnedLoadRaw
    \/ GetAxialSlice
    \/ LoadNdarray
    \/ LoadDicom
    \/ LoadBlosc
    \/ LoadRaw
    \/ Resize
    \/ UnifySpacing
    \/ Flip
    \/ CalcLungMask
    \/ Segment
    \/ MakeXip
    \/ \E i \in Items : TaskRebuild(i)
    \/ \E i \in Items : TaskAccumulate(i)
    \/ \E i \in Items : TaskBlosc(i)
    \/ \E i \in Items : TaskFail(i)
    \/ PostRebuild
    \/ PostSegment
    \/ PostLoadDicom
    \/ PostLoadBlosc
    \/ PostMakeXip
    \/ NormalizeHu
    \/ LoadOther
    \/ Dump
    \/ \E i \in Items : TaskDump(i)
    \/ PostDump
    \/ NewBatch
    \/ GetPatches
    \/ LoadFromPatches
    \/ GetImageAt
    \/ GetImageOf
    \/ GetAttrsAt
    \/ GetAttrsOf
    \/ CropAccess
    \/ \E i \in Items : TaskCrop(i)
    \/ PostCrop

Spec == Init /\ [][Next]_vars

(* ------------------------------ pipelines ----------------------------- *)
\* pipelines built in one session
MaxBuilt == 3

\* the values a caller overrides a key with
Override ==
    [k \in {"spacing", "shape", "padding", "method", "order"} |->
        CASE k = "spacing" -> {"(1, 1, 1)", "(2, 1, 1)"}
          [] k = "shape" -> {"(128, 256, 256)"}
          [] k = "padding" -> {"edge"}
          [] k = "method" -> {"resize"}
          [] k = "order" -> {"3"}]

\* the **kwargs a caller passes: any of the keys, each with one of its values
KwargsChoices ==
    UNION {{kw \in [S -> UNION {Override[k] : k \in S}] : \A k \in S : kw[k] \in Override[k]}
           : S \in SUBSET DOMAIN Override}

\* dict.update: the keys of other are set in d
update(d, other) ==
    [k \in DOMAIN d \cup DOMAIN other |-> IF k \in DOMAIN other THEN other[k] ELSE d[k]]

\* the dict is the module-level one itself
args_object_shared == "kwargs_default"

\* args_unify_spacing = copy(kwargs_default): a new dict with the same items
args_object == "copy"

\* args_unify_spacing = copy(kwargs_default); args_unify_spacing.update(kwargs);
\* the pipeline is built with .unify_spacing(**args_unify_spacing)
BuildPipeline(name, kw) ==
    /\ built < MaxBuilt
    /\ built' = built + 1
    /\ pipeline' = name
    /\ kwargs' = kw
    /\ overridden' = overridden \cup DOMAIN kw
    /\ args_unify_spacing' = update(kwargs_default, kw)
    /\ kwargs_default' = IF args_object = "copy"
                         THEN kwargs_default
                         ELSE update(kwargs_default, kw)
    /\ UNCHANGED batchVars

get_crops == \E kw \in KwargsChoices : BuildPipeline("get_crops", kw)

split_dump == \E kw \in KwargsChoices : BuildPipeline("split_dump", kw)

update_histo == \E kw \in KwargsChoices : BuildPipeline("update_histo", kw)

NextPipelines ==
    \/ get_crops
    \/ split_dump
    \/ update_histo

SpecPipelines == Init /\ [][NextPipelines]_vars

(* ------------------------------ properties ---------------------------- *)
\* the invariant of a stacked-volume store
BoundsValid(st) ==
    /\ Len(st.bounds) = N + 1
    /\ st.bounds[1] = 0
    /\ \A i \in Items : st.bounds[i] <= st.bounds[i + 1]
    /\ st.bounds[N + 1] = Len(st.data)

Returned == ret.kind = "batch"

\* C1: once a load has succeeded, after any sequence of operations the
\* store (and every batch an operation returns) has N + 1 bounds starting
\* at 0, non-decreasing, the last one equal to the length of the buffer
C1_StoreInvariant ==
    /\ loaded => BoundsValid(Store)
    /\ Returned => BoundsValid(ret.batch)

\* what C1 says, for every operation but load_from_patches
C1_ExceptLoadFromPatches ==
    (op.kind # "load_from_patches" /\ (BoundsValid(pre) \/ ~pre.loaded))
        => C1_StoreInvariant

FailAtomicKinds ==
    {"resize", "unify_spacing", "flip", "calc_lung_mask", "make_xip", "load_dicom"}

\* C2: when a task of resize, unify_spacing, flip, calc_lung_mask, make_xip
\* or the dicom load fails, the call raises the parallel-task error and the
\* buffer, bounds, origin and spacing are what they were before the call
C2_ParallelFailureAtomic ==
    (pc = "idle" /\ op.kind \in FailAtomicKinds /\ any_action_failed)
        => (err = "ValueError" /\ ret.kind = "none" /\ Store = pre)

\* a resize ended after one task wrote its slice and the other raised
C2_Witness ==
    /\ pc = "idle"
    /\ op.kind = "resize"
    /\ op.shapeKw
    /\ task[1] = "ok"
    /\ task[N] = "failed"
    /\ res # Zeros(Len(res))
    /\ err = "ValueError"

\* C3: when reading an item fails in load(fmt='raw') or load(fmt='blosc'),
\* the call fails and buffer, bounds, origin and spacing are unchanged
C3_AllOrNothingLoad ==
    (pc = "idle" /\ op.kind \in {"load_raw", "load_blosc"} /\ err # "none")
        => Store = pre

DestSlicesDisjoint ==
    \A j, k \in 1..Len(descs) :
        j # k => (descs[j].hi <= descs[k].lo \/ descs[k].hi <= descs[j].lo)

DestSlicesCover ==
    \A r \in 1..Len(res) : \E k \in 1..Len(descs) : descs[k].lo < r /\ r <= descs[k].hi

\* C4: a rebuild on a store with valid bounds builds one descriptor per
\* item; the destination slices are pairwise disjoint and cover the whole
\* destination buffer (bounds [0,4,10], shape (5,.,.): rows [0,5) and [5,10))
C4_RebuildWriteRegions ==
    (op.kind \in RebuildKinds /\ BoundsValid(pre)) =>
        /\ Len(descs) = N
        /\ \A k \in 1..N : descs[k].item = k
        /\ DestSlicesDisjoint
        /\ DestSlicesCover
        /\ (N = 2 /\ pre.bounds = <<0, 4, 10>> /\ op.shapeKw /\ op.shape[1] = 5) =>
                /\ descs[1].lo = 0 /\ descs[1].hi = 5
                /\ descs[2].lo = 5 /\ descs[2].hi = 10

\* the tasks of resize(shape=(5,.,.)) on the store with bounds [0,4,10] run
C4_Witness ==
    /\ pc = "running"
    /\ op.kind = "resize"
    /\ op.shapeKw
    /\ op.shape[1] = 5
    /\ pre.bounds[2] = 4
    /\ descs[1].hi = 5
    /\ task[1] = "ok"

\* what the accumulate call built: the store, or the batch it returned
Built == IF op.new_batch THEN ret.batch ELSE Store

\* what the task of item i is to return
Expected(i) ==
    IF op.kind = "make_xip"
    THEN xip(get_image(pre, i - 1), op.step, op.depth)
    ELSE outs[i].rows

\* C5: after the dicom load and after make_xip the buffer is the
\* concatenation of the per-item outputs in index order and bounds is the
\* cumulative sum of their lengths, whatever the order the tasks completed in
C5_AccumulateOrder ==
    (pc = "idle" /\ op.kind \in AccumulateKinds /\ err = "none") =>
        /\ \A i \in Items : outs[i].rows = Expected(i)
        /\ Built.data = Concat([i \in Items |-> Expected(i)])
        /\ Built.bounds = CumSum([i \in Items |-> Len(Expected(i))])

\* the last item's task completed first, and the outputs differ
C5_Witness ==
    /\ pc = "idle"
    /\ op.kind \in AccumulateKinds
    /\ err = "none"
    /\ completed[1] = N
    /\ outs[1].rows # outs[N].rows

\* C6: while tasks of a rebuild run the store is what it was before the
\* call and does not refer to the destination buffer; the store is replaced
\* only when every task has completed without failure
C6_CommitAfterCompletion ==
    /\ (pc = "running" /\ op.kind \in RebuildKinds) =>
            (Store = pre /\ dataRef # resRef)
    /\ (pc = "idle" /\ op.kind \in RebuildKinds /\ Store # pre) =>
            (\A i \in Items : task[i] = "ok")

\* one task of a flip has written its slice, another is still running
C6_Witness ==
    /\ pc = "running"
    /\ op.kind = "flip"
    /\ task[1] = "ok"
    /\ task[N] = "pending"
    /\ res # Zeros(Len(res))

\* C7: on a store with valid bounds get_image(i) is rows bounds[i] ..
\* bounds[i+1]-1 of the buffer: exactly bounds[i+1]-bounds[i] slices
C7_GetImageExtent ==
    (pc = "idle" /\ op.kind = "get_image" /\ ret.kind = "image" /\ BoundsValid(Store)) =>
        LET i == ret.pos + 1
        IN  /\ Len(ret.rows) = bounds[i + 1] - bounds[i]
            /\ \A k \in 1..Len(ret.rows) : ret.rows[k] = data[bounds[i] + k]

\* the view of the last item of a store whose items differ in length
C7_Witness ==
    /\ pc = "idle"
    /\ op.kind = "get_image"
    /\ ret.kind = "image"
    /\ ret.pos = N - 1
    /\ bounds[2] # bounds[N + 1] - bounds[N]
    /\ Len(ret.rows) >= 2
    /\ BoundsValid(Store)

KnownId(id) == \E p \in 1..N : Index[p] = id

\* C8: a position that is negative or >= N raises the index error, an
\* identifier that is not in the index raises the unknown-identifier error,
\* the store is unchanged; a position in [0, N) is returned as it is
C8_LookupErrors ==
    (pc = "idle" /\ op.kind \in {"get_image", "get_attrs"}) =>
        /\ Store = pre
        /\ op.index.isInt =>
              IF op.index.val < 0 \/ op.index.val >= N
              THEN err = "IndexError" /\ ret.kind = "none"
              ELSE err = "none" /\ ret.pos = op.index.val
        /\ ~op.index.isInt =>
              IF KnownId(op.index.val)
              THEN err = "none" /\ Index[ret.pos + 1] = op.index.val
              ELSE err = "KeyError" /\ ret.kind = "none"

\* get_image was called with the position N
C8_Witness ==
    /\ pc = "idle"
    /\ op.kind = "get_image"
    /\ op.index.isInt
    /\ op.index.val = N
    /\ err = "IndexError"

\* C9: after resize to the target shape (z, y, x) bounds is [0, z, .., N*z],
\* every item has the shape (z, y, x) and the buffer has N*z rows
C9_ResizeResultShape ==
    (pc = "idle" /\ op.kind = "resize" /\ err = "none") =>
        /\ bounds = [k \in 1..(N + 1) |-> op.shape[1] * (k - 1)]
        /\ Len(data) = N * op.shape[1]
        /\ \A i \in Items : shape(Store)[i] = op.shape

\* what C9 says, for the calls that pass the shape by keyword
C9_ResizeKeywordShape == op.shapeKw => C9_ResizeResultShape

\* C10: after resize to a target shape, for every item and axis the new
\* spacing is old spacing * old extent / target extent, and origin is unchanged
C10_ResizeSpacing ==
    (pc = "idle" /\ op.kind = "resize" /\ err = "none") =>
        /\ \A i \in Items : \A a \in 1..3 :
              /\ spacing[i][a] = QDiv(QMul(pre.spacing[i][a], QI(shape(pre)[i][a])),
                                      QI(op.shape[a]))
              /\ QMul(spacing[i][a], QI(op.shape[a])) =
                    QMul(pre.spacing[i][a], QI(shape(pre)[i][a]))
        /\ origin = pre.origin

\* what C10 says, for the calls that pass the shape by keyword
C10_ResizeKeywordSpacing == op.shapeKw => C10_ResizeSpacing

\* what unify_spacing is to leave on axis a of item i: the new spacing and origin
UnifiedSpacing(i, a) ==
    LET extent == QMul(pre.spacing[i][a], QI(shape(pre)[i][a]))
    IN  QDiv(extent, QI(Rint(QDiv(extent, QI(op.spacing[a])))))

UnifiedOvershoot(i, a) ==
    Rint(QDiv(QMul(pre.spacing[i][a], QI(shape(pre)[i][a])), QI(op.spacing[a])))
        - op.shape[a]

\* C11: after unify_spacing, with shape_after_resize = round(old_shape *
\* old_spacing / target_spacing) and overshoot = shape_after_resize - target
\* shape, spacing is old_spacing * old_shape / shape_after_resize and origin is
\* old_origin + new_spacing * (overshoot // 2); zero overshoot keeps the origin
C11_UnifySpacingMetadata ==
    (pc = "idle" /\ op.kind = "unify_spacing" /\ err = "none") =>
        \A i \in Items : \A a \in 1..3 :
            /\ spacing[i][a] = UnifiedSpacing(i, a)
            /\ origin[i][a] = QAdd(pre.origin[i][a],
                                   QMul(UnifiedSpacing(i, a),
                                        QI(UnifiedOvershoot(i, a) \div 2)))
            /\ UnifiedOvershoot(i, a) = 0 => origin[i][a] = pre.origin[i][a]

\* what C11 says, for the calls that pass spacing and shape by keyword
C11_UnifyKeywordMetadata == (op.spacingKw /\ op.shapeKw) => C11_UnifySpacingMetadata

\* a unify_spacing to twice the spacing along z with zero overshoot on every axis
C11_ZeroOvershootReached ==
    /\ pc = "idle" /\ op.kind = "unify_spacing" /\ err = "none"
    /\ op.spacingKw /\ op.shapeKw
    /\ op.spacing[1] = 2
    /\ \A i \in Items : \A a \in 1..3 : UnifiedOvershoot(i, a) = 0
    /\ spacing # pre.spacing

\* the second of two flips in a row has returned
FlippedTwice ==
    /\ pc = "idle" /\ op.kind = "flip" /\ err = "none"
    /\ prev.op.kind = "flip" /\ prev.err = "none"

\* C12: flip applied twice reproduces the buffer for every item, and bounds,
\* origin and spacing after a flip are what they were before it
C12_FlipInvolutive ==
    /\ FlippedTwice =>
          /\ \A i \in Items : get_image(Store, i - 1) = get_image(prev.pre, i - 1)
          /\ bounds = prev.pre.bounds
    /\ (pc = "idle" /\ op.kind = "flip" /\ err = "none") =>
          /\ bounds = pre.bounds
          /\ origin = pre.origin
          /\ spacing = pre.spacing

\* what C12 says, for stores whose bounds end at the length of the buffer
C12_FlipInvolutiveValid ==
    /\ (FlippedTwice /\ BoundsValid(prev.pre)) =>
          /\ data = prev.pre.data
          /\ bounds = prev.pre.bounds /\ origin = prev.pre.origin
          /\ spacing = prev.pre.spacing
    /\ (pc = "idle" /\ op.kind = "flip" /\ err = "none" /\ BoundsValid(pre)) =>
          /\ \A i \in Items : get_image(Store, i - 1) = Reverse(get_image(pre, i - 1))
          /\ bounds = pre.bounds /\ origin = pre.origin /\ spacing = pre.spacing

\* two flips of a store whose first item has two different slices
C12_Witness ==
    /\ FlippedTwice
    /\ BoundsValid(prev.pre)
    /\ Len(get_image(pre, 0)) >= 2
    /\ get_image(pre, 0) # get_image(prev.pre, 0)
    /\ data = prev.pre.data

\* load_from_patches has been given the patches get_patches had just cut from
\* the store, with the same stride and the shape of the items as scan_shape
PatchRoundTrip ==
    /\ pc = "idle" /\ op.kind = "load_from_patches" /\ err = "none"
    /\ prev.op.kind = "get_patches" /\ prev.err = "none"
    /\ pre = prev.pre
    /\ \A i \in Items : shape(pre)[i] = shape(pre)[1]
    /\ op.stride = prev.op.stride
    /\ op.patch = prev.op.patch
    /\ op.patches = get_patches(pre.data, shape(pre)[1][1], op.patch, op.stride)
    /\ op.scan = shape(pre)[1]

\* the extent of an item after the padding get_patches adds
PaddedExtent ==
    LET w == calc_padding_size(op.scan[1], op.patch, op.stride)
    IN  op.scan[1] + w[1] + w[2]

\* C13: on a store whose items share one shape, load_from_patches of the
\* patches get_patches returned, with the same stride and scan_shape the item
\* shape, leaves the buffer as it was, when the stride divides the padded extent
C13_PatchRoundTrip ==
    (PatchRoundTrip /\ PaddedExtent % op.stride = 0) =>
        /\ data = pre.data
        /\ sliceShape = pre.sliceShape

\* a round trip through windows of two slices cut from padded items
C13_Witness ==
    /\ PatchRoundTrip
    /\ PaddedExtent % op.stride = 0
    /\ op.patch = 2 /\ op.stride = 2
    /\ PaddedExtent > op.scan[1]
    /\ Len(op.patches) > N
    /\ data = pre.data
    /\ data[1] # data[2]

\* the round trip for every stride, windows with gaps included
C13_AnyStride == PatchRoundTrip => data = pre.data

Normalized == pc = "idle" /\ op.kind = "normalize_hu" /\ err = "none"

\* clip((v - min_hu) / (max_hu - min_hu), 0, 1) * 255
Scaled(v, min_hu, max_hu) ==
    LET q == QDiv(QSub(v, QI(min_hu)), QI(max_hu - min_hu))
    IN  IF QLess(q, QI(0)) THEN QI(0)
        ELSE IF QLess(QI(1), q) THEN QI(255)
        ELSE QMul(q, QI(255))

\* C14: after normalize_hu(min_hu, max_hu) with min_hu < max_hu every voxel v
\* is clip((v - min_hu)/(max_hu - min_hu), 0, 1) * 255: within [0, 255], 0 for
\* v <= min_hu, 255 for v >= max_hu; bounds, origin and spacing are unchanged
C14_NormalizeHu ==
    (Normalized /\ op.min_hu < op.max_hu) =>
        /\ Len(data) = Len(pre.data)
        /\ \A k \in 1..Len(data) :
              /\ data[k] = Scaled(pre.data[k], op.min_hu, op.max_hu)
              /\ ~QLess(data[k], QI(0)) /\ ~QLess(QI(255), data[k])
              /\ ~QLess(QI(op.min_hu), pre.data[k]) => data[k] = QI(0)
              /\ ~QLess(pre.data[k], QI(op.max_hu)) => data[k] = QI(255)
        /\ bounds = pre.bounds /\ origin = pre.origin /\ spacing = pre.spacing
        /\ sliceShape = pre.sliceShape

\* a buffer with voxels below min_hu, above max_hu and in between was normalized
C14_Witness ==
    /\ Normalized
    /\ \E k \in 1..Len(data) : QLess(pre.data[k], QI(op.min_hu)) /\ data[k] = QI(0)
    /\ \E k \in 1..Len(data) : QLess(QI(op.max_hu), pre.data[k]) /\ data[k] = QI(255)
    /\ \E k \in 1..Len(data) : QLess(QI(0), data[k]) /\ QLess(data[k], QI(255))

\* C15: normalize_hu applied twice with the same (min_hu, max_hu) leaves the
\* buffer the first application left
C15_NormalizeIdempotent ==
    (Normalized /\ prev.op.kind = "normalize_hu" /\ prev.err = "none"
        /\ prev.op.min_hu = op.min_hu /\ prev.op.max_hu = op.max_hu)
        => data = pre.data

\* what C15 says, for the limits (0, 255)
C15_IdempotentOnRange ==
    (op.min_hu = 0 /\ op.max_hu = 255) => C15_NormalizeIdempotent

\* C16: after segment every voxel where the computed lung mask is 1 keeps its
\* value and every voxel where it is 0 is DARK_HU = -2000; bounds, origin and
\* spacing are unchanged; if the mask computation fails the store is unchanged
C16_SegmentResult ==
    /\ (pc = "idle" /\ op.kind = "segment" /\ err = "none") =>
          /\ Len(data) = Len(pre.data) /\ Len(res) = Len(data)
          /\ \A k \in 1..Len(data) :
                /\ res[k] \in {QI(0), QI(1)}
                /\ res[k] = QI(1) => data[k] = pre.data[k]
                /\ res[k] = QI(0) => data[k] = QI(-2000) /\ data[k] = QI(DARK_HU)
          /\ bounds = pre.bounds /\ origin = pre.origin /\ spacing = pre.spacing
    /\ (pc = "idle" /\ op.kind = "segment" /\ err # "none") => Store = pre

\* a segment that kept some voxels and darkened others
C16_Witness ==
    /\ pc = "idle" /\ op.kind = "segment" /\ err = "none"
    /\ \E k \in 1..Len(data) : res[k] = QI(1) /\ data[k] # QI(DARK_HU)
    /\ \E k \in 1..Len(data) : res[k] = QI(0) /\ pre.data[k] # QI(DARK_HU)

\* a segment whose mask computation failed for one item
C16_FailureReached ==
    /\ pc = "idle" /\ op.kind = "segment" /\ err = "ValueError"
    /\ res # Zeros(Len(res))

\* C17: load with a format other than 'ndarray', 'dicom', 'blosc', 'raw'
\* fails with an error and leaves buffer, bounds, origin and spacing unchanged
C17_UnsupportedLoadFormat ==
    (pc = "idle" /\ op.kind = "load" /\ op.fmt \notin {"ndarray", "dicom", "blosc", "raw"}) =>
        /\ err = "TypeError"
        /\ ret.kind = "none"
        /\ Store = pre

\* a loaded store was asked to load an unknown format
C17_Witness ==
    /\ pc = "idle" /\ op.kind = "load" /\ op.fmt = "png"
    /\ pre.loaded /\ Len(pre.data) >= 2
    /\ err # "none"

\* C18: dump with a format other than 'blosc' fails as a whole, creates no
\* directory and writes no file for any item, and leaves the store unchanged
C18_UnsupportedDumpFormat ==
    /\ []((pc = "idle" /\ op.kind = "dump" /\ op.fmt # "blosc") =>
            (err # "none" /\ ret.kind = "none" /\ Store = pre))
    /\ [][(op.kind = "dump" /\ op.fmt # "blosc") => fs' = fs]_vars

\* a dump to an unknown format ended after the tasks of all items ran
C18_Witness ==
    /\ pc = "idle" /\ op.kind = "dump" /\ op.fmt = "png"
    /\ \A i \in Items : task[i] = "failed"
    /\ Len(completed) = N
    /\ err = "ValueError"

Dumped == pc = "idle" /\ op.kind = "dump" /\ err = "none"

\* the file names the directory of an item is to hold after a dump of op.src
DumpedNames ==
    {<<op.src[k], IF op.src[k] \in {"attrs", "spacing", "origin"} THEN "pkl" ELSE "blk">> :
        k \in 1..Len(op.src)}

\* C19: after a successful dump of the components S the directory of every
\* item holds exactly one file per component of S (.blk for array data, .pkl
\* for attrs, spacing, origin) and no file left from a directory that was there
C19_DumpOverwrites ==
    Dumped =>
        \A i \in Items :
            /\ fs[i].exists
            /\ {<<f.name, f.ext>> : f \in fs[i].files} = DumpedNames
            /\ Cardinality(fs[i].files) = Len(op.src)

\* what C19 says, for a dump into directories no earlier dump has written
C19_DumpIntoFresh == (prev.op.kind # "dump") => C19_DumpOverwrites

\* a dump of the data alone into directories that held three components
C19_LeftoverReached ==
    /\ Dumped
    /\ op.src = <<"data">>
    /\ prev.op.kind = "dump" /\ prev.err = "none" /\ Len(prev.op.src) = 3
    /\ \A i \in Items : Cardinality(fs[i].files) = 3

\* load(fmt='blosc') has ended on a fresh store, after a dump of the
\* components data, origin and spacing of a loaded store
LoadedAfterDump ==
    /\ pc = "idle" /\ op.kind = "load_blosc"
    /\ ~pre.loaded
    /\ prev.op.kind = "dump" /\ prev.err = "none" /\ prev.op.fmt = "blosc"
    /\ prev.op.src = <<"data", "origin", "spacing">>
    /\ op.src = prev.op.src

\* C20: dumping data, origin and spacing of a loaded store in blosc format and
\* loading them with load(fmt='blosc') into a fresh store with the same index
\* gives a store with the per-item data, bounds, origin and spacing of the first
C20_DumpLoadRoundTrip ==
    LoadedAfterDump =>
        /\ err = "none"
        /\ loaded
        /\ bounds = prev.pre.bounds
        /\ \A i \in Items : get_image(Store, i - 1) = get_image(prev.pre, i - 1)
        /\ origin = prev.pre.origin
        /\ spacing = prev.pre.spacing

\* the load that followed the dump ended, every file it asked for being there
C20_LoadAttempted ==
    /\ LoadedAfterDump
    /\ \A i \in Items : Cardinality(fs[i].files) = 3
    /\ Len(completed) = N

(* ----------------------- flip within the items ------------------------ *)
\* flip has returned
Flipped == pc = "idle" /\ op.kind = "flip" /\ err = "none"

\* row bounds[i]+k of the new buffer is row bounds[i+1]-1-k of the old one
FlipRows(i) ==
    \A k \in 0..(pre.bounds[i + 1] - pre.bounds[i] - 1) :
        /\ bounds[i] + k < Len(data)
        /\ pre.bounds[i + 1] - 1 - k < Len(pre.data)
        /\ data[bounds[i] + k + 1] = pre.data[pre.bounds[i + 1] - k]

\* C27: after flip, for every item i and every k below its length, row
\* bounds[i]+k of the new buffer is row bounds[i+1]-1-k of the old buffer: the
\* slices are reversed within each item and the items keep their order
C27_FlipWithinItems ==
    Flipped => \A i \in Items : FlipRows(i)

\* what C27 says, for stores whose bounds end at the length of the buffer
C27_FlipWithinItemsValid ==
    (Flipped /\ BoundsValid(pre)) =>
        /\ Len(data) = Len(pre.data)
        /\ \A i \in Items : FlipRows(i)

\* a store of two items of different lengths and different slices was flipped
C27_FlipReached ==
    /\ Flipped /\ BoundsValid(pre)
    /\ Len(get_image(pre, 0)) # Len(get_image(pre, 1))
    /\ \E i \in Items : Len(get_image(pre, i - 1)) >= 2
    /\ data # pre.data

(* --------------------- the patches get_patches cuts ------------------- *)
\* get_patches has returned its patches
PatchesCut == pc = "idle" /\ op.kind = "get_patches" /\ err = "none" /\ ret.kind = "patches"

\* the extent of an item of the store get_patches read, after padding
CutExtent ==
    LET ext == shape(pre)[1][1]
        w == calc_padding_size(ext, op.patch, op.stride)
    IN  ext + w[1] + w[2]

\* the windows cut from one item
CutPerItem == (CutExtent - op.patch) \div op.stride + 1

\* row r of item i after edge padding
PaddedRow(i, r) ==
    LET ext == shape(pre)[1][1]
        w == calc_padding_size(ext, op.patch, op.stride)
    IN  pre.data[(i - 1) * ext + Max(1, Min(ext, r - w[1]))]

\* C28: get_patches returns N * ((padded_extent - patch) // stride + 1)
\* patches, those of item 0 first, then those of item 1, and within an item
\* window j starts j * stride rows into the padded item
C28_PatchCountAndOrder ==
    PatchesCut =>
        /\ Len(ret.rows) = N * CutPerItem
        /\ \A i \in Items : \A j \in 1..CutPerItem :
              ret.rows[(i - 1) * CutPerItem + j] =
                  [k \in 1..op.patch |-> PaddedRow(i, (j - 1) * op.stride + k)]

\* two windows were cut from each of two padded items that differ
C28_Witness ==
    /\ PatchesCut
    /\ CutPerItem >= 2
    /\ CutExtent > shape(pre)[1][1]
    /\ get_image(pre, 0) # get_image(pre, 1)
    /\ Len(ret.rows) = N * CutPerItem
    /\ ret.rows[1] # ret.rows[2]

(* ------------------- the shape load_from_patches leaves --------------- *)
\* load_from_patches has returned
Assembled == pc = "idle" /\ op.kind = "load_from_patches" /\ err = "none"

\* C29: after load_from_patches(patches, stride, scan_shape) the buffer has
\* N * scan_shape[0] rows of shape scan_shape[1:], whatever padding was inferred
C29_AssemblyShape ==
    Assembled =>
        /\ Len(data) = N * op.scan[1]
        /\ sliceShape = <<op.scan[2], op.scan[3]>>

\* scans were assembled from patches cut with padding, into a store whose
\* items had another shape
C29_Witness ==
    /\ Assembled
    /\ PaddedExtent > op.scan[1]
    /\ Len(op.patches) = N * num_sections(PaddedExtent, op.patch, op.stride)
    /\ Len(pre.data) # N * op.scan[1]
    /\ sliceShape # pre.sliceShape
    /\ Len(data) = N * op.scan[1]

(* ------------------------- views and buffers --------------------------- *)
\* normalize_hu or segment has returned
PointwiseDone == pc = "idle" /\ op.kind \in {"normalize_hu", "segment"} /\ err = "none"

\* what a view of item i+1 taken with get_image when the call began shows
\* now: the rows of the array it was cut from, which is the store's array
\* only if the store still refers to it
ViewNow(pos) ==
    IF dataRef = pre.dataRef THEN get_image([pre EXCEPT !.data = data], pos)
    ELSE get_image(pre, pos)

\* C24: a view of item i obtained with get_image before normalize_hu or
\* segment shows the operation's result for item i after it: the store keeps
\* the same underlying buffer
C24_PointwiseInPlace ==
    PointwiseDone =>
        /\ dataRef = pre.dataRef
        /\ Len(bounds) = N + 1 =>
              \A i \in Items : ViewNow(i - 1) = get_image(Store, i - 1)

\* C24 as the code has it: normalize_hu and segment bind the store to a new
\* array that holds the result; a view obtained before the operation keeps
\* the values it held, and get_image after it shows the result
C24_PointwiseRebinds ==
    PointwiseDone =>
        /\ dataRef # pre.dataRef
        /\ Len(bounds) = N + 1 =>
              \A i \in Items : ViewNow(i - 1) = get_image(pre, i - 1)
        /\ op.kind = "normalize_hu" => data = normalize_hu(pre.data, op.min_hu, op.max_hu)
        /\ op.kind = "segment" => data = segment_data(pre.data, res)

\* normalize_hu changed the values of the first item of a store
C24_Witness ==
    /\ PointwiseDone /\ op.kind = "normalize_hu"
    /\ BoundsValid(pre)
    /\ get_image(Store, 0) # get_image(pre, 0)
    /\ ViewNow(0) = get_image(pre, 0)

\* segment darkened voxels of a store
C24_SegmentReached ==
    /\ PointwiseDone /\ op.kind = "segment"
    /\ data # pre.data
    /\ ViewNow(0) = get_image(pre, 0)

\* a structural transform is running or has ended, with or without failure
Structural == op.kind \in {"resize", "unify_spacing", "flip"}

\* the rows of the array the store referred to when the call began
OldBuffer == IF dataRef = pre.dataRef THEN data ELSE pre.data

\* C25: during and after resize, unify_spacing or flip, failed or not, a view
\* obtained with get_image before the transform holds the values it held:
\* the tasks write a newly allocated destination, never the old buffer
C25_OldBufferKept ==
    Structural =>
        /\ OldBuffer = pre.data
        /\ resRef # pre.dataRef
        /\ \A i \in Items : get_image([pre EXCEPT !.data = OldBuffer], i - 1)
                                = get_image(pre, i - 1)

\* a flip replaced the buffer of a store by one with other values
C25_Witness ==
    /\ Structural /\ op.kind = "flip"
    /\ pc = "idle" /\ err = "none"
    /\ dataRef # pre.dataRef
    /\ data # pre.data
    /\ get_image(pre, 0) # get_image(Store, 0)

\* a resize failed after one of its tasks had written the destination
C25_FailureReached ==
    /\ Structural /\ op.kind = "resize"
    /\ pc = "idle" /\ err = "ValueError"
    /\ res # Zeros(Len(res))
    /\ dataRef = pre.dataRef

(* ------------------------ what the tasks write ------------------------- *)
\* the task of item i ends in this step
TaskEnds(i) == pc = "running" /\ task[i] = "pending" /\ task'[i] # "pending"

\* C26: a step of a task of any parallel call (rebuilds, accumulations, blosc
\* load, dump) leaves buffer, bounds, origin and spacing of the store as they
\* are; the task writes its own result and its own slice of the destination
C26_DispatchReadOnly ==
    [][\A i \in Items : TaskEnds(i) =>
          /\ <<loaded, data, dataRef, sliceShape, bounds, origin, spacing>>' =
                <<loaded, data, dataRef, sliceShape, bounds, origin, spacing>>
          /\ resRef' = resRef /\ (resRef # 0 => resRef # dataRef)
          /\ \A j \in Items \ {i} : outs'[j] = outs[j] /\ task'[j] = task[j]
          /\ Len(res') = Len(res)
          /\ \A k \in 1..Len(res) :
                ~(descs[i].lo < k /\ k <= descs[i].hi) => res'[k] = res[k]]_vars

\* a task of a blosc load has ended while another is pending, and so has a
\* task of a dump of a loaded store
C26_Witness ==
    /\ pc = "running"
    /\ op.kind \in {"load_blosc", "dump"}
    /\ task[1] # "pending"
    /\ task[N] = "pending"
    /\ op.kind = "dump" => (loaded /\ task[1] = "ok" /\ fs[1].exists)
    /\ op.kind = "load_blosc" => Len(completed) = 1

(* ----------------------- failure and the siblings ---------------------- *)
\* the call that is running ends in this step
CallEnds == pc = "running" /\ pc' = "idle"

\* C23: a failed task cancels nothing: the call ends only when every task has
\* run to completion, a task that has ended keeps its outcome, and a call
\* that ends with a failed task reports the error, returns nothing and
\* leaves the store as it was, so no result of a sibling is committed
C23_NoCancellation ==
    [][/\ CallEnds => AllDone
       /\ (CallEnds /\ any_action_failed) =>
             /\ err' # "none"
             /\ ret'.kind = "none"
             /\ <<loaded, data, dataRef, sliceShape, bounds, origin, spacing>>' =
                   <<loaded, data, dataRef, sliceShape, bounds, origin, spacing>>
       /\ \A i \in Items :
             (pc = "running" /\ task[i] \in {"ok", "failed"}) => task'[i] = task[i]]_vars

\* the first task of a make_xip failed, its sibling completed after it with a
\* result, and the call then raised
C23_Witness ==
    /\ pc = "idle"
    /\ op.kind = "make_xip"
    /\ completed = <<1, N>>
    /\ task[1] = "failed"
    /\ task[N] = "ok"
    /\ outs[N].rows # <<>>
    /\ err = "ValueError"
    /\ Store = pre

(* ------------------------ metadata co-indexing ------------------------- *)
\* origin and spacing have one row of three per identifier of the index
MetaRows(st) ==
    /\ Len(st.origin) = N /\ Len(st.spacing) = N
    /\ \A i \in Items : Len(st.origin[i]) = 3 /\ Len(st.spacing[i]) = 3

\* C22: between operations origin and spacing have shape (N, 3), N the number
\* of identifiers of the index, and the bounds of a store that holds a buffer
\* count N items as well: buffer, bounds, origin and spacing are replaced
\* together (the index is never assigned; the model has it as the fixed Index)
C22_MetadataCoIndexed ==
    pc = "idle" =>
        /\ MetaRows(Store)
        /\ loaded => Len(bounds) - 1 = Len(origin)
        /\ Returned => (MetaRows(ret.batch) /\ Len(ret.batch.bounds) - 1 = N)

\* what C22 says, for stores whose bounds a load has set
C22_CoIndexedOnceBounded ==
    pc = "idle" =>
        /\ MetaRows(Store)
        /\ (loaded /\ bounds # <<>>) => Len(bounds) - 1 = Len(origin)
        /\ Returned => (MetaRows(ret.batch) /\ Len(ret.batch.bounds) - 1 = N)

\* a resize has replaced buffer, bounds, origin and spacing of a loaded store
C22_ReplacedTogether ==
    /\ pc = "idle" /\ op.kind = "resize" /\ err = "none" /\ ~op.new_batch
    /\ data # pre.data /\ bounds # pre.bounds /\ spacing # pre.spacing
    /\ Len(bounds) - 1 = Len(origin)

(* --------------------------- the crop cache ---------------------------- *)
\* a load, resize, unify_spacing or flip has given the store a new buffer
Replaced ==
    /\ pc = "idle" /\ err = "none"
    /\ op.kind \in {"load_ndarray", "load_dicom", "load_raw", "resize", "unify_spacing", "flip"}
    /\ dataRef # pre.dataRef

\* the crop parameters of the buffer the store holds
CropOf(st) ==
    [centers |-> [i \in Items |-> rbba(get_image(st, i - 1))[3]],
     sizes |-> [i \in Items |-> SubSeq(rbba(get_image(st, i - 1)), 1, 2)]]

\* C21: when load, resize, unify_spacing or flip replaces the buffer, the
\* cached crop centers and sizes are dropped, and what an access to
\* crop_centers / crop_sizes returns is computed from the buffer the store holds
C21_CropInvalidated ==
    /\ Replaced => crop = NoCrop
    /\ (pc = "idle" /\ op.kind \in CropKinds /\ err = "none") =>
          /\ crop = CropOf(Store)
          /\ ret.rows = crop_cache(op.kind)

\* what the code keeps of C21: an access that returns has computed the
\* parameters of the buffer the store holds
C21_ReturnedFromCurrent ==
    (pc = "idle" /\ op.kind \in CropKinds /\ err = "none") =>
        /\ crop = CropOf(Store)
        /\ ret.rows = crop_cache(op.kind)
        /\ pre = Store

\* an access found the cache filled and raised
C21_FilledAccessReached ==
    /\ pc = "idle" /\ op.kind \in CropKinds /\ err = "ValueError"
    /\ \A i \in Items : task[i] = "none"
    /\ crop # NoCrop

\* a resize has replaced the buffer and the cache holds the parameters of
\* the buffer it replaced
C21_StaleReached ==
    /\ Replaced /\ op.kind = "resize"
    /\ BoundsValid(Store)
    /\ crop # NoCrop
    /\ crop = CropOf(pre)
    /\ crop # CropOf(Store)

\* C30: when a task of _crop_params_patients fails, the access to
\* crop_centers / crop_sizes fails with the parallel-task error (ValueError,
\* "Failed while parallelizing") and the cached centers and sizes keep their values
C30_CropTaskFailure ==
    [][(CallEnds /\ op.kind \in CropKinds /\ any_action_failed) =>
            /\ err' = "ValueError"
            /\ ret'.kind = "none"
            /\ crop' = crop]_vars

\* what the code keeps of C30: the access raises some error and the cache
\* and the store keep their values
C30_CropCacheKept ==
    [][(CallEnds /\ op.kind \in CropKinds /\ any_action_failed) =>
            /\ err' # "none"
            /\ ret'.kind = "none"
            /\ crop' = crop
            /\ <<loaded, data, dataRef, sliceShape, bounds, origin, spacing>>' =
                  <<loaded, data, dataRef, sliceShape, bounds, origin, spacing>>]_vars

\* every task of a crop-parameter computation failed and the access raised
C30_FailureReached ==
    /\ pc = "idle" /\ op.kind \in CropKinds
    /\ \A i \in Items : task[i] = "failed"
    /\ err = "IndexError"
    /\ crop = NoCrop

(* ------------------------ the cache is a cache ------------------------- *)
\* an access to crop_centers / crop_sizes has ended and no task was
\* dispatched for it: it found its array filled
CacheHit ==
    /\ pc = "idle" /\ op.kind \in CropKinds
    /\ \A i \in Items : task[i] = "none"

\* C35: the first access to crop_centers or crop_sizes of a loaded store
\* computes both from the buffer; an access that finds them filled succeeds
\* and returns the cached values without dispatching the computation again
C35_CropCached ==
    /\ (pc = "idle" /\ op.kind \in CropKinds /\ err = "none" /\ ~CacheHit) =>
          /\ crop = CropOf(Store)
          /\ ret.rows = crop_cache(op.kind)
    /\ CacheHit =>
          /\ err = "none"
          /\ ret.kind = "crop"
          /\ ret.rows = crop_cache(op.kind)

\* what the code keeps of C35: the first access computes both arrays from
\* the buffer, and an access that finds them filled leaves them as they are
C35_FirstAccessComputes ==
    /\ (pc = "idle" /\ op.kind \in CropKinds /\ err = "none") =>
          /\ ~CacheHit
          /\ crop = CropOf(Store)
          /\ crop.centers # <<>> /\ crop.sizes # <<>>
    /\ CacheHit => (crop # NoCrop /\ Store = pre)

\* the second of two accesses in a row, nothing replaced in between
C35_SecondAccessReached ==
    /\ CacheHit
    /\ calls = 3
    /\ crop = CropOf(Store)
    /\ err = "ValueError"

(* ----------------------------- raw load -------------------------------- *)
\* load(fmt='raw') has returned; op.patches holds the decoded volumes
RawLoaded == pc = "idle" /\ op.kind = "load_raw" /\ err = "none"

\* what the decoder gave for item i
Decoded(i) == RawImage(i, Len(op.patches[i]))

\* C33: after a successful load(fmt='raw') the buffer is the decoded volumes
\* one after the other in index order, bounds is 0 followed by the running
\* sums of their lengths, and origin and spacing of every item are the
\* decoder's with the axes reversed (x, y, z -> z, y, x)
C33_RawLoadStacking ==
    RawLoaded =>
        /\ loaded
        /\ Len(bounds) = N + 1 /\ bounds[1] = 0
        /\ \A i \in Items :
              /\ bounds[i + 1] = bounds[i] + Len(op.patches[i])
              /\ \A k \in 1..Len(op.patches[i]) : data[bounds[i] + k] = op.patches[i][k]
              /\ origin[i] = VInt(<<Decoded(i).origin[3], Decoded(i).origin[2],
                                    Decoded(i).origin[1]>>)
              /\ spacing[i] = VInt(<<Decoded(i).spacing[3], Decoded(i).spacing[2],
                                     Decoded(i).spacing[1]>>)
        /\ Len(data) = bounds[N + 1]

\* two volumes of different lengths were loaded, their axes not symmetric
C33_Witness ==
    /\ RawLoaded
    /\ Len(op.patches[1]) # Len(op.patches[N])
    /\ Len(data) = Len(op.patches[1]) + Len(op.patches[N])
    /\ origin[1][1] # origin[1][3]
    /\ origin[1] # origin[N]
    /\ spacing # pre.spacing

(* -------------------------- default metadata --------------------------- *)
\* load(fmt='ndarray') has returned
NdarrayLoaded == pc = "idle" /\ op.kind = "load_ndarray" /\ err = "none"

\* the keyword was among those the load was given
Passed(kw) == \E k \in 1..Len(op.src) : op.src[k] = kw

\* N rows of three times the value v
Rows3(v) == [i \in Items |-> <<QI(v), QI(v), QI(v)>>]

\* C34: a newly constructed store has origin all zeros and spacing all ones,
\* of shape (N, 3); load(fmt='ndarray') without origin sets origin to zeros
\* and without spacing sets spacing to ones, whatever they were before
C34_DefaultMetadata ==
    /\ calls = 0 => (origin = Rows3(0) /\ spacing = Rows3(1))
    /\ (NdarrayLoaded /\ ~Passed("origin")) => origin = Rows3(0)
    /\ (NdarrayLoaded /\ ~Passed("spacing")) => spacing = Rows3(1)

\* a load that passed spacing only, into a store whose origin was not zero
C34_Witness ==
    /\ NdarrayLoaded
    /\ Passed("spacing") /\ ~Passed("origin")
    /\ pre.origin # Rows3(0)
    /\ origin = Rows3(0)
    /\ spacing # Rows3(1)

\* a load that passed origin only, into a store whose spacing was not one
C34_SpacingReset ==
    /\ NdarrayLoaded
    /\ Passed("origin") /\ ~Passed("spacing")
    /\ pre.spacing # Rows3(1)
    /\ spacing = Rows3(1)

(* ------------------------- C36: get_axial_slice ------------------------ *)
AxialAsked ==
    /\ pc = "idle"
    /\ op.kind = "get_axial_slice"
    /\ get_verified_pos(op.index).err = "none"

\* int(slice_height * n) for a height in [0, 1)
Margin(h, n) == (h[1] * n) \div h[2]

\* C36: for a valid person (position or identifier) with n slices and
\* slice_height h in [0,1), get_axial_slice returns the 2-D slice number
\* int(h * n) of that person's volume: buffer row bounds[pos] + int(h * n)
C36_AxialSlice ==
    AxialAsked =>
        LET pos == get_verified_pos(op.index).pos
            n == bounds[pos + 2] - bounds[pos + 1]
        IN  /\ err = "none"
            /\ ret.kind = "slice"
            /\ ret.rows = <<data[bounds[pos + 1] + Margin(op.slice_height, n) + 1]>>

\* what the code does on every valid person: the tuple has no shape
C36_AttributeError == AxialAsked => err = "AttributeError" /\ ret = NoRet

\* a valid person by identifier, half way up a volume of more than one slice
C36_AxialAskedReached ==
    /\ AxialAsked
    /\ ~op.index.isInt
    /\ op.slice_height = <<1, 2>>
    /\ LET pos == get_verified_pos(op.index).pos
       IN  bounds[pos + 2] - bounds[pos + 1] > 1

(* ------------------ C32: effective resize arguments ------------------- *)
Resized == pc = "idle" /\ op.kind \in {"resize", "unify_spacing"}

\* the spacing a finished resize or unify_spacing is to leave on axis a of item i
RescaledSpacing(i, a) ==
    IF op.kind = "resize"
    THEN QDiv(QMul(pre.spacing[i][a], QI(shape(pre)[i][a])), QI(op.shape[a]))
    ELSE UnifiedSpacing(i, a)

\* C32: resize and unify_spacing use their effective arguments: with the
\* shape passed by keyword or omitted (default (128, 256, 256)) the call does
\* not fail on its arguments, the buffer and the bounds are sized from the
\* effective target shape, every item has that shape afterwards and the
\* spacing is rescaled to it
C32_EffectiveArguments ==
    Resized =>
        /\ err # "KeyError"
        /\ err = "none" =>
              /\ bounds = [k \in 1..(N + 1) |-> op.shape[1] * (k - 1)]
              /\ Len(data) = N * op.shape[1]
              /\ \A i \in Items : shape(Store)[i] = op.shape
              /\ \A i \in Items : \A a \in 1..3 : spacing[i][a] = RescaledSpacing(i, a)

\* what C32 says, for the calls that pass every argument they use by keyword
C32_KeywordArguments ==
    (op.shapeKw /\ (op.kind = "unify_spacing" => op.spacingKw)) => C32_EffectiveArguments

\* a resize() with the shape omitted that ended without error
C32_OmittedShapeReached ==
    /\ Resized
    /\ op.kind = "resize"
    /\ ~op.shapeKw
    /\ op.shape = DefaultShape
    /\ err = "none"

\* a unify_spacing(spacing=...) with the shape omitted
C32_OmittedUnifyShapeReached ==
    /\ Resized
    /\ op.kind = "unify_spacing"
    /\ op.spacingKw
    /\ ~op.shapeKw

(* ------------------- C31: copy-on-transform isolation ------------------ *)
Transformed ==
    /\ pc = "idle"
    /\ op.kind \in {"make_xip", "calc_lung_mask"}
    /\ err = "none"

OnReturned == pc = "idle" /\ op.kind = "returned.load_raw"

\* calc_lung_mask and make_xip return a new store and leave the source
\* store's buffer, bounds, origin and spacing as they were
C31_SourceKeptByTransform ==
    Transformed =>
        /\ ret.kind = "batch"
        /\ ret.batch.dataRef # dataRef
        /\ Store = pre

\* C31: calc_lung_mask and make_xip (new_batch=True) return a new store and
\* leave the source store's buffer, bounds, origin and spacing unchanged, and
\* no later operation on the returned store, such as load(fmt='raw'), changes
\* the source store's origin or spacing
C31_CopyOnTransform ==
    /\ C31_SourceKeptByTransform
    /\ OnReturned => origin = pre.origin /\ spacing = pre.spacing

\* a raw load on the returned store that read every item
C31_ReturnedLoadReached == OnReturned /\ err = "none" /\ ret.batch.origin = origin

\* a lung mask was returned and the source is as before
C31_TransformReached == Transformed /\ op.kind = "calc_lung_mask" /\ Store = pre

(* ------------------ C37: pipeline defaults are not leaked -------------- *)
\* C37: get_crops, split_dump and update_histo called with overriding kwargs
\* (spacing, shape, padding, method, order) build their unify_spacing
\* arguments from a copy: the module-level kwargs_default is unchanged after
\* any sequence of calls, the arguments are the defaults with the call's
\* kwargs set, and a later call without kwargs uses the original defaults
C37_DefaultsNotLeaked ==
    /\ kwargs_default = KwargsDefault
    /\ built > 0 =>
          /\ DOMAIN args_unify_spacing = DOMAIN KwargsDefault \cup DOMAIN kwargs
          /\ \A k \in DOMAIN args_unify_spacing :
                args_unify_spacing[k] = IF k \in DOMAIN kwargs THEN kwargs[k]
                                        ELSE KwargsDefault[k]
          /\ kwargs = NoKwargs => args_unify_spacing = KwargsDefault

\* a call without kwargs after calls that overrode every key
C37_Witness ==
    /\ built = MaxBuilt
    /\ pipeline = "update_histo"
    /\ kwargs = NoKwargs
    /\ overridden = DOMAIN Override
    /\ args_unify_spacing = KwargsDefault

====
